---- MODULE Spec2Model ----
(***************************************************************************)
(* A model of the SEO analysis engine of src/auditly/seo_analyzer.py:      *)
(* SEOAnalyzer.analyze, its six extractors, calculate_scores and           *)
(* generate_improvements.                                                  *)
(*                                                                         *)
(* Python strings are sequences of one-character strings, so that `in`,    *)
(* lower(), replace(), split(), startswith() and the f-string formatting   *)
(* of numbers are computed character by character as the code computes     *)
(* them.  NULL stands for Python's None (and for an absent element or      *)
(* attribute of the parsed document).                                      *)
(***************************************************************************)
EXTENDS Integers, Sequences, FiniteSets, TLC

\* None: a tuple that is no string of the model (its one element is not a character)
NULL == <<"None">>

(***************************************************************************)
(* Python built-ins on strings and numbers                                 *)
(***************************************************************************)
UpperLetters == <<"A","B","C","D","E","F","G","H","I","J","K","L","M","N","O","P","Q","R","S","T","U","V","W","X","Y","Z">>
LowerLetters == <<"a","b","c","d","e","f","g","h","i","j","k","l","m","n","o","p","q","r","s","t","u","v","w","x","y","z">>
LowerMap == [c \in {UpperLetters[i] : i \in 1..Len(UpperLetters)} |->
               LowerLetters[CHOOSE i \in 1..Len(UpperLetters) : UpperLetters[i] = c]]

\* str.lower()
lower(s) == [i \in 1..Len(s) |-> IF s[i] \in DOMAIN LowerMap THEN LowerMap[s[i]] ELSE s[i]]

\* k in s (substring test)
Contains(s, k) == \E i \in 0..(Len(s) - Len(k)) : \A j \in 1..Len(k) : s[i + j] = k[j]

\* s.startswith(p), s.endswith(p)
startswith(s, p) == Len(p) <= Len(s) /\ SubSeq(s, 1, Len(p)) = p
endswith(s, p) == Len(p) <= Len(s) /\ SubSeq(s, Len(s) - Len(p) + 1, Len(s)) = p

\* s.find(k): the index (from 1) of the first occurrence of k in s, 0 when none
find(s, k) ==
    LET At(i) == \A j \in 1..Len(k) : s[i + j - 1] = k[j]
        Starts == {i \in 1..(Len(s) - Len(k) + 1) : At(i)}
    IN  IF Starts = {} THEN 0 ELSE CHOOSE i \in Starts : \A j \in Starts : i <= j

\* s.replace(old, new) for a non-empty old: every non-overlapping occurrence,
\* scanning from the left
RECURSIVE replace(_, _, _)
replace(s, old, new) ==
    LET i == find(s, old)
    IN  IF i = 0 THEN s
        ELSE SubSeq(s, 1, i - 1) \o new \o replace(SubSeq(s, i + Len(old), Len(s)), old, new)

DigitChars == <<"0","1","2","3","4","5","6","7","8","9">>

\* str(n) of an int, as f"{n}" renders it
RECURSIVE str(_)
str(n) == IF n < 0 THEN <<"-">> \o str(-n)
          ELSE IF n < 10 THEN <<DigitChars[n + 1]>>
          ELSE str(n \div 10) \o <<DigitChars[(n % 10) + 1]>>


\* f"{x:.Nf}" of the non-negative rational numer/denom: rounded to `places`
\* decimals, ties to even (Python formats the exact value of the double; the
\* inputs of the model are doubles whose value is the rational itself or not
\* a tie).
RECURSIVE Pow10(_)
Pow10(n) == IF n = 0 THEN 1 ELSE 10 * Pow10(n - 1)

RECURSIVE ZeroPad(_, _)
ZeroPad(s, width) == IF Len(s) >= width THEN s ELSE ZeroPad(<<"0">> \o s, width)

Fixed(numer, denom, places) ==
    LET scaled == numer * Pow10(places)
        q == scaled \div denom
        r == scaled % denom
        rounded == IF 2 * r > denom \/ (2 * r = denom /\ q % 2 = 1) THEN q + 1 ELSE q
    IN  str(rounded \div Pow10(places)) \o <<".">> \o ZeroPad(str(rounded % Pow10(places)), places)

\* int(s) of a string of decimal digits
DigitValue(c) == CHOOSE d \in 0..9 : DigitChars[d + 1] = c
RECURSIVE int(_)
int(s) == IF s = << >> THEN 0 ELSE 10 * int(SubSeq(s, 1, Len(s) - 1)) + DigitValue(s[Len(s)])

\* The index of the first character of s that is in chars, 0 when there is none
FindAny(s, chars) ==
    IF \E i \in 1..Len(s) : s[i] \in chars
    THEN CHOOSE i \in 1..Len(s) : s[i] \in chars /\ \A j \in 1..(i - 1) : s[j] \notin chars
    ELSE 0

\* s.split(sep) for a one-character separator: empty pieces are kept
RECURSIVE SplitOn(_, _)
SplitOn(s, sep) ==
    LET i == FindAny(s, {sep})
    IN  IF i = 0 THEN <<s>> ELSE <<SubSeq(s, 1, i - 1)>> \o SplitOn(SubSeq(s, i + 1, Len(s)), sep)

\* s.split(): pieces between runs of whitespace, no empty piece
Whitespace == {" ", "\n", "\t"}
NonEmpty(w) == w # << >>
SplitWhitespace(s) ==
    LET IsStart(i) == s[i] \notin Whitespace /\ (i = 1 \/ s[i - 1] \in Whitespace)
        IsEnd(i) == s[i] \notin Whitespace /\ (i = Len(s) \/ s[i + 1] \in Whitespace)
        indices == [i \in 1..Len(s) |-> i]
        starts == SelectSeq(indices, IsStart)
        ends == SelectSeq(indices, IsEnd)
    IN  [k \in 1..Len(starts) |-> SubSeq(s, starts[k], ends[k])]

\* sep.join(parts)
RECURSIVE join(_, _)
join(sep, parts) ==
    IF parts = << >> THEN << >>
    ELSE IF Len(parts) = 1 THEN parts[1]
    ELSE parts[1] \o sep \o join(sep, Tail(parts))

max(a, b) == IF a >= b THEN a ELSE b
min(a, b) == IF a <= b THEN a ELSE b

RECURSIVE Concat(_)
Concat(seqs) == IF seqs = << >> THEN << >> ELSE Head(seqs) \o Concat(Tail(seqs))


(***************************************************************************)
(* urllib.parse on the URLs of the model: scheme://netloc/path?query#frag, *)
(* scheme:rest, //netloc/path, /path, path and #fragment forms (no ';'     *)
(* parameters and no '.' or '..' segments).                                *)
(***************************************************************************)
SchemeChars ==
    {LowerLetters[i] : i \in 1..Len(LowerLetters)} \cup {UpperLetters[i] : i \in 1..Len(UpperLetters)}
    \cup {DigitChars[i] : i \in 1..Len(DigitChars)} \cup {"+", "-", "."}
Letters ==
    {LowerLetters[i] : i \in 1..Len(LowerLetters)} \cup {UpperLetters[i] : i \in 1..Len(UpperLetters)}

From(s, i) == SubSeq(s, i, Len(s))

\* The index of the ':' that ends a scheme, 0 when the URL has no scheme
SchemeEnd(url, colon) ==
    IF /\ colon > 1
       /\ url[1] \in Letters
       /\ \A j \in 1..(colon - 1) : url[j] \in SchemeChars
    THEN colon ELSE 0
SplitScheme(url, end) ==
    [scheme |-> IF end > 0 THEN lower(SubSeq(url, 1, end - 1)) ELSE << >>,
     rest   |-> From(url, end + 1)]

\* _splitnetloc: what follows '//' up to the first of '/', '?' and '#'
SplitNetlocAt(after, delim) ==
    [netloc |-> IF delim = 0 THEN after ELSE SubSeq(after, 1, delim - 1),
     rest   |-> IF delim = 0 THEN << >> ELSE From(after, delim)]
SplitNetloc(rest) ==
    IF startswith(rest, <<"/","/">>)
    THEN SplitNetlocAt(From(rest, 3), FindAny(From(rest, 3), {"/", "?", "#"}))
    ELSE [netloc |-> << >>, rest |-> rest]

\* the path: what is left once the fragment and the query are cut off
CutAt(s, cut) == IF cut = 0 THEN s ELSE SubSeq(s, 1, cut - 1)
UrlParts(scheme, split) ==
    [scheme |-> scheme, netloc |-> split.netloc,
     path   |-> CutAt(split.rest, FindAny(split.rest, {"?", "#"}))]

\* urlparse(url): its scheme, netloc and path
SchemeSplit(url) == SplitScheme(url, SchemeEnd(url, FindAny(url, {":"})))
ParseSplit(s) == UrlParts(s.scheme, SplitNetloc(s.rest))
urlparse(url) == ParseSplit(SchemeSplit(url))

uses_relative == {<< >>, <<"h","t","t","p">>, <<"h","t","t","p","s">>, <<"f","t","p">>, <<"f","i","l","e">>, <<"w","s">>, <<"w","s","s">>, <<"s","f","t","p">>}

\* The path of urljoin: the directory of the base path, then the path of the
\* url (an absolute path replaces the base path), empty inner segments removed
DropLast(parts) == SubSeq(parts, 1, Len(parts) - 1)
BaseDir(base_parts) ==
    IF base_parts[Len(base_parts)] # << >> THEN DropLast(base_parts) ELSE base_parts
Resolve(segments) ==
    IF Len(segments) >= 2
    THEN <<segments[1]>> \o SelectSeq(SubSeq(segments, 2, Len(segments) - 1), NonEmpty)
         \o <<segments[Len(segments)]>>
    ELSE segments
OrSlash(joined) == IF joined = << >> THEN <<"/">> ELSE joined
JoinPath(bpath, path) ==
    IF path = << >> THEN bpath
    ELSE IF startswith(path, <<"/">>) THEN OrSlash(join(<<"/">>, Resolve(SplitOn(path, "/"))))
    ELSE OrSlash(join(<<"/">>, Resolve(BaseDir(SplitOn(bpath, "/")) \o SplitOn(path, "/"))))

\* urljoin(base, url) for a non-empty base and a non-empty url, from the parts
\* of both
JoinParsed(b, u, scheme, url) ==
    IF scheme # b.scheme \/ scheme \notin uses_relative THEN url
    ELSE IF u.netloc # << >>
         THEN scheme \o <<":","/","/">> \o u.netloc \o u.path
         ELSE scheme \o <<":","/","/">> \o b.netloc \o JoinPath(b.path, u.path)
DefaultScheme(b, u) == IF u.scheme = << >> THEN b.scheme ELSE u.scheme
JoinParts(b, u, url) == JoinParsed(b, u, DefaultScheme(b, u), url)
urljoin(base, url) == JoinParts(urlparse(base), urlparse(url), url)

(***************************************************************************)
(* The extractors.  soup is the parsed document: a record of what the      *)
(* extractors look up in it.                                                *)
(*   title        soup.title.string, NULL without a <title>                 *)
(*   description  content of <meta name="description">, NULL without it     *)
(*   robots       content of <meta name="robots"> ('' when the element has  *)
(*                no content), NULL without the element                     *)
(*   canonical    href of <link rel="canonical">, NULL without the element  *)
(*   viewport     content of <meta name="viewport">, NULL without it        *)
(*   og_tags      number of <meta property="og:..."> elements               *)
(*   headings     h1..h6 |-> number of such elements                        *)
(*   images       sequence of [alt, src], NULL for an absent attribute      *)
(*   anchors      sequence of [href, nofollow], href NULL when absent       *)
(***************************************************************************)
\* the title analysis with the lower bound written `<=`
TitleFindingInclusive(title) ==
    IF title # NULL /\ title # << >>
    THEN IF Len(title) <= 30
         THEN <<"T","i","t","l","e"," ","t","a","g"," ","i","s"," ","t","o","o"," ","s","h","o","r","t"," ","(">> \o str(Len(title)) \o <<" ","c","h","a","r","s",","," ","r","e","c","o","m","m","e","n","d","e","d",":"," ","5","0","-","6","0",")">>
         ELSE IF Len(title) > 60
         THEN <<"T","i","t","l","e"," ","t","a","g"," ","i","s"," ","t","o","o"," ","l","o","n","g"," ","(">> \o str(Len(title)) \o <<" ","c","h","a","r","s",","," ","r","e","c","o","m","m","e","n","d","e","d",":"," ","5","0","-","6","0",")">>
         ELSE <<"T","i","t","l","e"," ","t","a","g"," ","l","e","n","g","t","h"," ","i","s"," ","o","p","t","i","m","a","l"," ","(">> \o str(Len(title)) \o <<" ","c","h","a","r","s",")">>
    ELSE <<"M","i","s","s","i","n","g"," ","t","i","t","l","e"," ","t","a","g">>

\* the title analysis: title is soup.title.string, or None without a title
TitleFinding(title) ==
    IF title # NULL /\ title # << >>
    THEN IF Len(title) < 30
         THEN <<"T","i","t","l","e"," ","t","a","g"," ","i","s"," ","t","o","o"," ","s","h","o","r","t"," ","(">> \o str(Len(title)) \o <<" ","c","h","a","r","s",","," ","r","e","c","o","m","m","e","n","d","e","d",":"," ","5","0","-","6","0",")">>
         ELSE IF Len(title) > 60
         THEN <<"T","i","t","l","e"," ","t","a","g"," ","i","s"," ","t","o","o"," ","l","o","n","g"," ","(">> \o str(Len(title)) \o <<" ","c","h","a","r","s",","," ","r","e","c","o","m","m","e","n","d","e","d",":"," ","5","0","-","6","0",")">>
         ELSE <<"T","i","t","l","e"," ","t","a","g"," ","l","e","n","g","t","h"," ","i","s"," ","o","p","t","i","m","a","l"," ","(">> \o str(Len(title)) \o <<" ","c","h","a","r","s",")">>
    ELSE <<"M","i","s","s","i","n","g"," ","t","i","t","l","e"," ","t","a","g">>

analyze_meta_tags(soup) ==
    LET title == soup.title
        title_finding == TitleFinding(title)
        desc == soup.description
        desc_finding ==
            IF desc # NULL /\ desc # << >>
            THEN IF Len(desc) < 120
                 THEN <<"M","e","t","a"," ","d","e","s","c","r","i","p","t","i","o","n"," ","i","s"," ","t","o","o"," ","s","h","o","r","t"," ","(">> \o str(Len(desc)) \o <<" ","c","h","a","r","s",","," ","r","e","c","o","m","m","e","n","d","e","d",":"," ","1","2","0","-","1","5","5",")">>
                 ELSE IF Len(desc) > 155
                 THEN <<"M","e","t","a"," ","d","e","s","c","r","i","p","t","i","o","n"," ","i","s"," ","t","o","o"," ","l","o","n","g"," ","(">> \o str(Len(desc)) \o <<" ","c","h","a","r","s",","," ","r","e","c","o","m","m","e","n","d","e","d",":"," ","1","2","0","-","1","5","5",")">>
                 ELSE <<"M","e","t","a"," ","d","e","s","c","r","i","p","t","i","o","n"," ","l","e","n","g","t","h"," ","i","s"," ","o","p","t","i","m","a","l"," ","(">> \o str(Len(desc)) \o <<" ","c","h","a","r","s",")">>
            ELSE <<"M","i","s","s","i","n","g"," ","m","e","t","a"," ","d","e","s","c","r","i","p","t","i","o","n">>
        robots_finding ==
            IF soup.robots # NULL
            THEN <<"R","o","b","o","t","s"," ","m","e","t","a"," ","t","a","g"," ","f","o","u","n","d",":"," ">> \o soup.robots
            ELSE <<"N","o"," ","r","o","b","o","t","s"," ","m","e","t","a"," ","t","a","g"," ","f","o","u","n","d">>
        canonical_finding ==
            IF soup.canonical # NULL
            THEN <<"C","a","n","o","n","i","c","a","l"," ","U","R","L"," ","i","s"," ","s","e","t"," ","t","o",":"," ">> \o soup.canonical
            ELSE <<"N","o"," ","c","a","n","o","n","i","c","a","l"," ","U","R","L"," ","s","p","e","c","i","f","i","e","d">>
        viewport_finding ==
            IF soup.viewport # NULL
            THEN <<"V","i","e","w","p","o","r","t"," ","m","e","t","a"," ","t","a","g"," ","i","s"," ","p","r","o","p","e","r","l","y"," ","s","e","t"," ","f","o","r"," ","m","o","b","i","l","e"," ","d","e","v","i","c","e","s">>
            ELSE <<"M","i","s","s","i","n","g"," ","v","i","e","w","p","o","r","t"," ","m","e","t","a"," ","t","a","g"," ","f","o","r"," ","m","o","b","i","l","e"," ","r","e","s","p","o","n","s","i","v","e","n","e","s","s">>
        og_finding ==
            IF soup.og_tags > 0
            THEN <<"F","o","u","n","d"," ">> \o str(soup.og_tags) \o <<" ","O","p","e","n"," ","G","r","a","p","h"," ","t","a","g","s"," ","f","o","r"," ","s","o","c","i","a","l"," ","m","e","d","i","a"," ","s","h","a","r","i","n","g">>
            ELSE <<"N","o"," ","O","p","e","n"," ","G","r","a","p","h"," ","t","a","g","s"," ","f","o","u","n","d"," ","f","o","r"," ","s","o","c","i","a","l"," ","m","e","d","i","a"," ","o","p","t","i","m","i","z","a","t","i","o","n">>
    IN  <<title_finding, desc_finding, robots_finding, canonical_finding,
          viewport_finding, og_finding>>

HeadingTags == <<<<"h","1">>, <<"h","2">>, <<"h","3">>, <<"h","4">>, <<"h","5">>, <<"h","6">>>>

\* word_freq as the loop builds the dict: the distinct lowercased words longer
\* than 3 characters in order of first occurrence (the order of a dict's
\* items), each with the number of its occurrences
word_freq(words) ==
    LET lowered == [i \in 1..Len(words) |-> lower(words[i])]
        Counted(i) == Len(words[i]) > 3
        IsFirst(i) == Counted(i) /\ \A j \in 1..(i - 1) : lowered[j] # lowered[i]
        firsts == SelectSeq([i \in 1..Len(words) |-> i], IsFirst)
    IN  [k \in 1..Len(firsts) |->
            [word  |-> lowered[firsts[k]],
             count |-> Cardinality({j \in 1..Len(words) : lowered[j] = lowered[firsts[k]]})]]

\* sorted(items, key=count, reverse=True): a stable sort, items of equal count
\* keep their order
\* the sort without reverse=True: ascending counts
sorted_by_count_ascending(items) ==
    LET Rank(i) ==
            Cardinality({j \in 1..Len(items) :
                \/ items[j].count < items[i].count
                \/ (items[j].count = items[i].count /\ j < i)}) + 1
    IN  [r \in 1..Len(items) |-> items[CHOOSE i \in 1..Len(items) : Rank(i) = r]]

sorted_by_count(items) ==
    LET Rank(i) ==
            Cardinality({j \in 1..Len(items) :
                \/ items[j].count > items[i].count
                \/ (items[j].count = items[i].count /\ j < i)}) + 1
    IN  [r \in 1..Len(items) |-> items[CHOOSE i \in 1..Len(items) : Rank(i) = r]]

TopN == 5
MinWords == 300

HeadingSummary(headings, present) ==
    <<"H","e","a","d","i","n","g"," ","s","t","r","u","c","t","u","r","e",":"," ">>
    \o join(<<","," ">>, [j \in 1..Len(present) |->
                      HeadingTags[present[j]] \o <<":"," ">> \o str(headings[present[j]])])

HeadingFindings(headings) ==
    (IF headings[1] = 0 THEN <<<<"M","i","s","s","i","n","g"," ","H","1"," ","h","e","a","d","i","n","g"," ","(","m","a","i","n"," ","t","i","t","l","e",")">>>>
     ELSE IF headings[1] > 1
     THEN <<<<"M","u","l","t","i","p","l","e"," ","H","1"," ","h","e","a","d","i","n","g","s"," ","d","e","t","e","c","t","e","d"," ","(">> \o str(headings[1]) \o <<" ","f","o","u","n","d",","," ","r","e","c","o","m","m","e","n","d","e","d",":"," ","1",")">>>>
     ELSE << >>)
    \o <<HeadingSummary(headings, SelectSeq(<<1, 2, 3, 4, 5, 6>>, LAMBDA i : headings[i] > 0))>>

\* img.get('src', '')
SrcOf(img) == IF img.src = NULL THEN << >> ELSE img.src
IsRaster(src) == endswith(src, <<".","p","n","g">>) \/ endswith(src, <<".","j","p","g">>) \/ endswith(src, <<".","j","p","e","g">>)

ImageCounts(total_images, images_without_alt, large_images) ==
    <<<<"T","o","t","a","l"," ","i","m","a","g","e","s",":"," ">> \o str(total_images)>>
    \o (IF images_without_alt > 0
        THEN <<<<"I","m","a","g","e","s"," ","w","i","t","h","o","u","t"," ","a","l","t"," ","t","e","x","t",":"," ">> \o str(images_without_alt)>> ELSE << >>)
    \o (IF large_images > 0
        THEN <<<<"C","o","n","s","i","d","e","r"," ","o","p","t","i","m","i","z","i","n","g"," ">> \o str(large_images) \o <<" ","l","a","r","g","e"," ","i","m","a","g","e","(","s",")">>>>
        ELSE << >>)

ImageFindings(images) ==
    ImageCounts(Len(images),
                Cardinality({i \in 1..Len(images) : images[i].alt = NULL \/ images[i].alt = << >>}),
                Cardinality({i \in 1..Len(images) : IsRaster(SrcOf(images[i]))}))

KeywordFindings(top_keywords, word_count) ==
    [i \in 1..Len(top_keywords) |->
        <<"-"," ","'">> \o top_keywords[i].word \o <<"'",":"," ">>
        \o Fixed(top_keywords[i].count * 100, word_count, 1)
        \o <<"%"," ","(">> \o str(top_keywords[i].count) \o <<" ","o","c","c","u","r","r","e","n","c","e","s",")">>]

Top(ranked) == SubSeq(ranked, 1, min(TopN, Len(ranked)))

WordFindings(words, word_count) ==
    <<IF word_count < MinWords
      THEN <<"C","o","n","t","e","n","t"," ","i","s"," ","t","o","o"," ","s","h","o","r","t"," ","(">> \o str(word_count) \o <<" ","w","o","r","d","s",","," ","r","e","c","o","m","m","e","n","d","e","d",":"," ","m","i","n","i","m","u","m"," ","3","0","0",")">>
      ELSE <<"G","o","o","d"," ","c","o","n","t","e","n","t"," ","l","e","n","g","t","h",":"," ">> \o str(word_count) \o <<" ","w","o","r","d","s">>,
      <<"T","o","p"," ","5"," ","k","e","y","w","o","r","d","s"," ","a","n","d"," ","t","h","e","i","r"," ","d","e","n","s","i","t","y",":">>>>
    \o KeywordFindings(Top(sorted_by_count(word_freq(words))), word_count)

TextFindings(words) == WordFindings(words, Len(words))

\* analyze_content without the test of text_content: no text is read as ''
analyze_content_unguarded(soup, text_content) ==
    HeadingFindings(soup.headings)
    \o ImageFindings(soup.images)
    \o TextFindings(IF text_content = NULL THEN << >> ELSE SplitWhitespace(text_content))

analyze_content(soup, text_content) ==
    HeadingFindings(soup.headings)
    \o ImageFindings(soup.images)
    \o (IF text_content # NULL /\ text_content # << >>
        THEN TextFindings(SplitWhitespace(text_content))
        ELSE << >>)

\* headers.get(name, default): header names are matched without regard to case,
\* so the headers are a record keyed by the lowercased name
HeaderGet(headers, name, default) == IF headers[name] = NULL THEN default ELSE headers[name]

MaxDepth == 3

analyze_technical(response, soup, url) ==
    LET headers == response.headers
        server == HeaderGet(headers, "server", <<"N","o","t"," ","d","i","s","c","l","o","s","e","d">>)
        compression ==
            IF Contains(lower(HeaderGet(headers, "content-encoding", << >>)), <<"g","z","i","p">>)
            THEN <<"C","o","n","t","e","n","t"," ","c","o","m","p","r","e","s","s","i","o","n"," ","(","g","z","i","p",")"," ","i","s"," ","e","n","a","b","l","e","d">>
            ELSE <<"C","o","n","t","e","n","t"," ","c","o","m","p","r","e","s","s","i","o","n"," ","i","s"," ","n","o","t"," ","e","n","a","b","l","e","d">>
        cache_control == HeaderGet(headers, "cache-control", <<"N","o","t"," ","s","e","t">>)
        expires == HeaderGet(headers, "expires", <<"N","o","t"," ","s","e","t">>)
        content_type == HeaderGet(headers, "content-type", <<"N","o","t"," ","s","e","t">>)
        path_depth == Len(SelectSeq(SplitOn(urlparse(url).path, "/"), NonEmpty))
        depth_finding ==
            IF path_depth > MaxDepth
            THEN <<<<"U","R","L"," ","s","t","r","u","c","t","u","r","e"," ","i","s"," ","d","e","e","p"," ","(">> \o str(path_depth) \o <<" ","l","e","v","e","l","s",","," ","r","e","c","o","m","m","e","n","d","e","d",":"," ","m","a","x","i","m","u","m"," ","3",")">>>>
            ELSE << >>
        content == soup.viewport
        viewport_finding ==
            IF soup.viewport # NULL
            THEN IF Contains(content, <<"w","i","d","t","h","=","d","e","v","i","c","e","-","w","i","d","t","h">>) /\ Contains(content, <<"i","n","i","t","i","a","l","-","s","c","a","l","e","=","1">>)
                 THEN <<<<"V","i","e","w","p","o","r","t"," ","i","s"," ","p","r","o","p","e","r","l","y"," ","c","o","n","f","i","g","u","r","e","d"," ","f","o","r"," ","m","o","b","i","l","e"," ","d","e","v","i","c","e","s">>>>
                 ELSE <<<<"V","i","e","w","p","o","r","t"," ","m","e","t","a"," ","t","a","g"," ","n","e","e","d","s"," ","o","p","t","i","m","i","z","a","t","i","o","n">>>>
            ELSE << >>
    IN  <<<<"S","e","r","v","e","r",":"," ">> \o server, compression, <<"C","a","c","h","e","-","C","o","n","t","r","o","l",":"," ">> \o cache_control,
          <<"E","x","p","i","r","e","s",":"," ">> \o expires, <<"C","o","n","t","e","n","t","-","T","y","p","e",":"," ">> \o content_type>>
        \o depth_finding \o viewport_finding

\* response.elapsed is kept in hundredths of a second
SlowSeconds == 2
BytesPerMB == 1048576
LargeMB == 3

\* analyze_speed without the test `content_length > 0`
analyze_speed_always_sized(response) ==
    LET response_time == response.elapsed
        content_length ==
            IF response.headers["content-length"] = NULL THEN 0
            ELSE int(response.headers["content-length"])
    IN  <<IF response_time > SlowSeconds * 100
          THEN <<"S","l","o","w"," ","s","e","r","v","e","r"," ","r","e","s","p","o","n","s","e"," ","t","i","m","e",":"," ">> \o Fixed(response_time, 100, 2) \o <<"s"," ","(","r","e","c","o","m","m","e","n","d","e","d",":"," ","<"," ","2","s",")">>
          ELSE <<"G","o","o","d"," ","s","e","r","v","e","r"," ","r","e","s","p","o","n","s","e"," ","t","i","m","e",":"," ">> \o Fixed(response_time, 100, 2) \o <<"s">>,
          IF content_length > LargeMB * BytesPerMB
          THEN <<"L","a","r","g","e"," ","p","a","g","e"," ","s","i","z","e",":"," ">> \o Fixed(content_length, BytesPerMB, 2) \o <<"M","B"," ","(","r","e","c","o","m","m","e","n","d","e","d",":"," ","<"," ","3","M","B",")">>
          ELSE <<"G","o","o","d"," ","p","a","g","e"," ","s","i","z","e",":"," ">> \o Fixed(content_length, BytesPerMB, 2) \o <<"M","B">>>>

analyze_speed(response) ==
    LET response_time == response.elapsed
        time_finding ==
            IF response_time > SlowSeconds * 100
            THEN <<"S","l","o","w"," ","s","e","r","v","e","r"," ","r","e","s","p","o","n","s","e"," ","t","i","m","e",":"," ">> \o Fixed(response_time, 100, 2) \o <<"s"," ","(","r","e","c","o","m","m","e","n","d","e","d",":"," ","<"," ","2","s",")">>
            ELSE <<"G","o","o","d"," ","s","e","r","v","e","r"," ","r","e","s","p","o","n","s","e"," ","t","i","m","e",":"," ">> \o Fixed(response_time, 100, 2) \o <<"s">>
        content_length ==
            IF response.headers["content-length"] = NULL THEN 0
            ELSE int(response.headers["content-length"])
        size_finding ==
            IF content_length > 0
            THEN IF content_length > LargeMB * BytesPerMB
                 THEN <<<<"L","a","r","g","e"," ","p","a","g","e"," ","s","i","z","e",":"," ">> \o Fixed(content_length, BytesPerMB, 2) \o <<"M","B"," ","(","r","e","c","o","m","m","e","n","d","e","d",":"," ","<"," ","3","M","B",")">>>>
                 ELSE <<<<"G","o","o","d"," ","p","a","g","e"," ","s","i","z","e",":"," ">> \o Fixed(content_length, BytesPerMB, 2) \o <<"M","B">>>>
            ELSE << >>
    IN  <<time_finding>> \o size_finding

\* domain_info is the outcome of whois.whois(domain): [raises |-> TRUE] when the
\* lookup raises, else creation_date and expiration_date, each
\*   [kind |-> "none"]               None
\*   [kind |-> "date", day |-> d]    a datetime
\*   [kind |-> "list", days |-> ds]  a list of datetimes
\*   [kind |-> "str"]                a date the registry client could not parse
\*                                   and left as text: subtracting it from a
\*                                   datetime raises TypeError
\* Dates are day numbers and `now` is datetime.now() as a day number.
NoDate == [kind |-> "none"]
FirstDate(d) == IF d.kind = "list" THEN [kind |-> "date", day |-> d.days[1]] ELSE d
\* the truth value of a date attribute: None and the empty list are false
Present(d) == d.kind # "none" /\ ~(d.kind = "list" /\ d.days = << >>)

\* analyze_security with `except: pass`
analyze_security_silent(url, domain_info, now) ==
    <<IF startswith(url, <<"h","t","t","p","s">>)
      THEN <<"W","e","b","s","i","t","e"," ","i","s"," ","s","e","c","u","r","e","d"," ","w","i","t","h"," ","H","T","T","P","S">>
      ELSE <<"W","e","b","s","i","t","e"," ","i","s"," ","n","o","t"," ","u","s","i","n","g"," ","H","T","T","P","S"," ","(","s","e","c","u","r","i","t","y"," ","r","i","s","k",")">>>>

analyze_security(url, domain_info, now) ==
    LET https_finding ==
            IF startswith(url, <<"h","t","t","p","s">>)
            THEN <<"W","e","b","s","i","t","e"," ","i","s"," ","s","e","c","u","r","e","d"," ","w","i","t","h"," ","H","T","T","P","S">>
            ELSE <<"W","e","b","s","i","t","e"," ","i","s"," ","n","o","t"," ","u","s","i","n","g"," ","H","T","T","P","S"," ","(","s","e","c","u","r","i","t","y"," ","r","i","s","k",")">>
        \* the except clause: what was appended inside the try block stays
        failed == <<<<"C","o","u","l","d"," ","n","o","t"," ","f","e","t","c","h"," ","d","o","m","a","i","n"," ","r","e","g","i","s","t","r","a","t","i","o","n"," ","i","n","f","o","r","m","a","t","i","o","n">>>>
        creation == FirstDate(domain_info.creation_date)
        expiration == FirstDate(domain_info.expiration_date)
        age_raises == Present(domain_info.creation_date) /\ creation.kind # "date"
        age_finding ==
            IF Present(domain_info.creation_date)
            THEN <<<<"D","o","m","a","i","n"," ","a","g","e",":"," ">> \o str(now - creation.day) \o <<" ","d","a","y","s">>>>
            ELSE << >>
        expiry_raises == Present(domain_info.expiration_date) /\ expiration.kind # "date"
        expiry_finding ==
            IF Present(domain_info.expiration_date)
            THEN <<<<"D","a","y","s"," ","u","n","t","i","l"," ","d","o","m","a","i","n"," ","e","x","p","i","r","y",":"," ">> \o str(expiration.day - now)>>
            ELSE << >>
    IN  <<https_finding>>
        \o (IF domain_info.raises THEN failed
            ELSE IF age_raises THEN failed
            ELSE IF expiry_raises THEN age_finding \o failed
            ELSE age_finding \o expiry_finding)

\* the findings with a count of the broken_links list added
LinkCountsWithBroken(total, internal, classified, nofollow_links) ==
    <<<<"T","o","t","a","l"," ","l","i","n","k","s"," ","f","o","u","n","d",":"," ">> \o str(total),
      <<"I","n","t","e","r","n","a","l"," ","l","i","n","k","s",":"," ">> \o str(internal),
      <<"E","x","t","e","r","n","a","l"," ","l","i","n","k","s",":"," ">> \o str(classified - internal),
      <<"B","r","o","k","e","n"," ","l","i","n","k","s",":"," ","0">>>>
    \o (IF nofollow_links > 0
        THEN <<<<"L","i","n","k","s"," ","w","i","t","h"," ","n","o","f","o","l","l","o","w",":"," ">> \o str(nofollow_links)>> ELSE << >>)

LinkCounts(total, internal, classified, nofollow_links) ==
    <<<<"T","o","t","a","l"," ","l","i","n","k","s"," ","f","o","u","n","d",":"," ">> \o str(total),
      <<"I","n","t","e","r","n","a","l"," ","l","i","n","k","s",":"," ">> \o str(internal),
      <<"E","x","t","e","r","n","a","l"," ","l","i","n","k","s",":"," ">> \o str(classified - internal)>>
    \o (IF nofollow_links > 0
        THEN <<<<"L","i","n","k","s"," ","w","i","t","h"," ","n","o","f","o","l","l","o","w",":"," ">> \o str(nofollow_links)>> ELSE << >>)

\* parsed_url.netloc == base_domain or not parsed_url.netloc
IsInternal(netloc, base_domain) == netloc = base_domain \/ netloc = << >>

\* links are the anchors with an href; those with an empty or fragment-only
\* href are skipped, every other one goes to internal_links or external_links
ClassifyLinks(anchors, links, classified, url, base_domain) ==
    LinkCounts(Len(links),
               Len(SelectSeq(classified,
                             LAMBDA a : IsInternal(urlparse(urljoin(url, a.href)).netloc, base_domain))),
               Len(classified),
               Len(SelectSeq(anchors, LAMBDA a : a.nofollow)))

\* the skip test without `href.startswith('#')`
SkippedEmptyOnly(href) == href = << >>

Skipped(href) == href = << >> \/ startswith(href, <<"#">>)
WithHref(anchors) == SelectSeq(anchors, LAMBDA a : a.href # NULL)

analyze_links(soup, url) ==
    ClassifyLinks(soup.anchors,
                  WithHref(soup.anchors),
                  SelectSeq(WithHref(soup.anchors), LAMBDA a : ~Skipped(a.href)),
                  url,
                  urlparse(url).netloc)

\* check_mobile_friendly: probe is the outcome of the GET with the mobile
\* User-Agent, [raises |-> TRUE] or [raises |-> FALSE, status_code |-> n]
check_mobile_friendly(probe) == IF probe.raises THEN FALSE ELSE probe.status_code = 200

(***************************************************************************)
(* calculate_scores                                                        *)
(***************************************************************************)
Categories == <<"meta", "content", "technical", "speed", "security", "links">>

\* any(k in x.lower() for k in keywords)
MatchesAny(x, keywords) == \E i \in 1..Len(keywords) : Contains(lower(x), keywords[i])

\* counting the keywords found rather than the findings that hold one
count_keyword_hits(analysis, keywords) ==
    Cardinality({<<i, j>> \in (1..Len(analysis)) \X (1..Len(keywords)) :
                    Contains(lower(analysis[i]), keywords[j])})

count_issues(analysis, keywords) ==
    Cardinality({i \in 1..Len(analysis) : MatchesAny(analysis[i], keywords)})

\* the keyword lists with 'no' left out of the meta keywords
ScoreKeywordsWithoutNo ==
    [meta      |-> <<<<"m","i","s","s","i","n","g">>, <<"t","o","o">>>>,
     content   |-> <<<<"m","i","s","s","i","n","g">>, <<"t","o","o"," ","s","h","o","r","t">>, <<"m","u","l","t","i","p","l","e">>>>,
     technical |-> <<<<"n","o","t">>, <<"s","l","o","w">>, <<"n","e","e","d","s">>>>,
     speed     |-> <<<<"s","l","o","w">>, <<"l","a","r","g","e">>>>,
     security  |-> <<<<"n","o","t">>, <<"r","i","s","k">>, <<"c","o","u","l","d"," ","n","o","t">>>>,
     links     |-> <<<<"b","r","o","k","e","n">>, <<"i","n","v","a","l","i","d">>>>]

ScoreKeywords ==
    [meta      |-> <<<<"m","i","s","s","i","n","g">>, <<"t","o","o">>, <<"n","o">>>>,
     content   |-> <<<<"m","i","s","s","i","n","g">>, <<"t","o","o"," ","s","h","o","r","t">>, <<"m","u","l","t","i","p","l","e">>>>,
     technical |-> <<<<"n","o","t">>, <<"s","l","o","w">>, <<"n","e","e","d","s">>>>,
     speed     |-> <<<<"s","l","o","w">>, <<"l","a","r","g","e">>>>,
     security  |-> <<<<"n","o","t">>, <<"r","i","s","k">>, <<"c","o","u","l","d"," ","n","o","t">>>>,
     links     |-> <<<<"b","r","o","k","e","n">>, <<"i","n","v","a","l","i","d">>>>]

Deduction ==
    [meta |-> 15, content |-> 10, technical |-> 20, speed |-> 25, security |-> 30, links |-> 15]

\* The weights 0.2, 0.25, 0.15, 0.15, 0.15, 0.1 in hundredths.
WeightScale == 100
weights ==
    [meta |-> 20, content |-> 25, technical |-> 15, speed |-> 15, security |-> 15, links |-> 10]

\* 100 - count_issues(...) * deduction, before the clamp
RawScore(analysis, c) == 100 - (count_issues(analysis, ScoreKeywords[c]) * Deduction[c])

\* the clamp without its lower end
NormalizeUpperOnly(x) == min(100, x)

\* max(0, min(100, x))
Normalize(x) == max(0, min(100, x))

RECURSIVE SumOver(_, _)
SumOver(f, keys) == IF keys = << >> THEN 0 ELSE f[Head(keys)] + SumOver(f, Tail(keys))

\* the weighted sum with the last category left out
WeightedSumWithoutLinks(scores) ==
    SumOver([c \in DOMAIN weights |-> scores[c] * weights[c]], SubSeq(Categories, 1, 5))

\* sum(scores[k] * weights[k] for k in scores), in units of 1/WeightScale
WeightedSum(scores) == SumOver([c \in DOMAIN weights |-> scores[c] * weights[c]], Categories)

\* The scores dictionary.  Sub-scores are whole points; "overall" is kept in
\* units of 1/WeightScale point, so that the fractional weighted sum is exact.
calculate_scores(analyses) ==
    LET scores == [c \in DOMAIN Deduction |-> Normalize(RawScore(analyses[c], c))]
        overall_score == WeightedSum(scores)
    IN  [c \in DOMAIN Deduction \cup {"overall"} |->
            IF c = "overall"
            THEN max(0 * WeightScale, min(100 * WeightScale, overall_score))
            ELSE scores[c]]

(***************************************************************************)
(* generate_improvements                                                   *)
(***************************************************************************)
DisplayName ==
    [meta |-> <<"M","e","t","a"," ","T","a","g","s">>, content |-> <<"C","o","n","t","e","n","t">>, technical |-> <<"T","e","c","h","n","i","c","a","l">>,
     speed |-> <<"S","p","e","e","d">>, security |-> <<"S","e","c","u","r","i","t","y">>, links |-> <<"L","i","n","k","s">>]

\* the keyword list with its last entry lost
issue_keywords_without_broken ==
    <<<<"m","i","s","s","i","n","g">>, <<"t","o","o">>, <<"n","o">>, <<"n","o","t">>, <<"s","l","o","w">>, <<"l","a","r","g","e">>, <<"m","u","l","t","i","p","l","e">>>>

issue_keywords ==
    <<<<"m","i","s","s","i","n","g">>, <<"t","o","o">>, <<"n","o">>, <<"n","o","t">>, <<"s","l","o","w">>, <<"l","a","r","g","e">>, <<"m","u","l","t","i","p","l","e">>, <<"b","r","o","k","e","n">>>>

IsIssue(issue) == MatchesAny(issue, issue_keywords)

Rewrite(issue) ==
    LET s1 == replace(issue, <<"M","i","s","s","i","n","g">>, <<"A","d","d">>)
        s2 == replace(s1, <<"T","o","o"," ","s","h","o","r","t">>, <<"I","n","c","r","e","a","s","e"," ","l","e","n","g","t","h"," ","o","f">>)
        s3 == replace(s2, <<"T","o","o"," ","l","o","n","g">>, <<"R","e","d","u","c","e"," ","l","e","n","g","t","h"," ","o","f">>)
        s4 == replace(s3, <<"N","o"," ">>, <<"A","d","d"," ">>)
    IN  replace(s4, <<"N","o","t"," ">>, <<"E","n","a","b","l","e"," ">>)

\* f"[{category}] {suggestion}"
Suggestion(c, issue) == <<"[">> \o DisplayName[c] \o <<"]"," ">> \o Rewrite(issue)

CategoryImprovements(c, analysis) ==
    LET issues == SelectSeq(analysis, IsIssue)
    IN  [i \in 1..Len(issues) |-> Suggestion(c, issues[i])]

generate_improvements(analyses) ==
    Concat([i \in 1..Len(Categories) |-> CategoryImprovements(Categories[i], analyses[Categories[i]])])

(***************************************************************************)
(* The pages the engine is run on.  A site is what the network serves for  *)
(* one URL: the response of the primary GET (status, headers, elapsed time *)
(* in hundredths of a second), the document parsed from its body, and the  *)
(* text the extraction fetch yields (NULL when it yields none).            *)
(*                                                                         *)
(* The extractors do not read each other's inputs (but for the viewport    *)
(* element, read by the Meta and the Technical extractor), so the sites    *)
(* vary the inputs of one extractor at a time around a base site.          *)
(* Content-Length, when present, is a string of decimal digits.            *)
(***************************************************************************)
\* s * n
Repeat(s, n) == [i \in 1..(n * Len(s)) |-> s[((i - 1) % Len(s)) + 1]]

BaseUrl == <<"h","t","t","p","s",":","/","/","e","x","a","m","p","l","e",".","c","o","m","/","b","l","o","g">>
Urls == {BaseUrl, <<"h","t","t","p",":","/","/","e","x","a","m","p","l","e",".","c","o","m","/","a","/","b","/","c","/","d","?","x","=","1">>, <<"h","t","t","p","s",":","/","/","s","h","o","p",".","e","x","a","m","p","l","e",".","c","o","m","/">>}

NoHeaders ==
    [h \in {"server", "content-encoding", "cache-control", "expires", "content-type",
            "content-length"} |-> NULL]
BaseHeaders ==
    [NoHeaders EXCEPT !["server"] = <<"n","g","i","n","x">>,
                      !["content-encoding"] = <<"g","z","i","p">>,
                      !["content-type"] = <<"t","e","x","t","/","h","t","m","l",";"," ","c","h","a","r","s","e","t","=","u","t","f","-","8">>,
                      !["content-length"] = <<"2","0","4","8">>]
BaseResponse == [status_code |-> 200, headers |-> BaseHeaders, elapsed |-> 50]

GoodViewport == <<"w","i","d","t","h","=","d","e","v","i","c","e","-","w","i","d","t","h",","," ","i","n","i","t","i","a","l","-","s","c","a","l","e","=","1">>
BaseSoup ==
    [title       |-> Repeat(<<"t">>, 30),
     description |-> Repeat(<<"d">>, 120),
     robots      |-> <<"i","n","d","e","x",","," ","f","o","l","l","o","w">>,
     canonical   |-> <<"h","t","t","p","s",":","/","/","e","x","a","m","p","l","e",".","c","o","m","/","b","l","o","g">>,
     viewport    |-> GoodViewport,
     og_tags     |-> 2,
     headings    |-> <<1, 2, 0, 0, 0, 0>>,
     images      |-> <<[alt |-> <<"l","o","g","o">>, src |-> <<"l","o","g","o",".","s","v","g">>]>>,
     anchors     |-> <<[href |-> <<"/","a","b","o","u","t">>, nofollow |-> FALSE]>>]
BaseText == <<"A","u","d","i","t","l","y"," ","a","u","d","i","t","s"," ","p","a","g","e","s">>
BaseSite == [url |-> BaseUrl, response |-> BaseResponse, soup |-> BaseSoup, text |-> BaseText]

Titles == {NULL, << >>} \cup {Repeat(<<"t">>, n) : n \in {29, 30, 60, 61, 70}}
Descriptions == {NULL} \cup {Repeat(<<"d">>, n) : n \in {119, 120, 155, 156}}
Viewports == {NULL, GoodViewport, <<"w","i","d","t","h","=","1","0","2","4">>}

TitleSoups ==
    {[BaseSoup EXCEPT !.title = t, !.description = d] : t \in Titles, d \in Descriptions}
MetaSoups ==
    {[BaseSoup EXCEPT !.title = t, !.robots = r, !.canonical = c, !.viewport = v, !.og_tags = o] :
        t \in {NULL, Repeat(<<"t">>, 30)},
        r \in {NULL, << >>, <<"n","o","i","n","d","e","x">>}, c \in {NULL, <<"/","b","l","o","g">>}, v \in Viewports, o \in {0, 1}}

ImageLists ==
    {<< >>,
     <<[alt |-> NULL, src |-> <<"p","h","o","t","o",".","j","p","g">>], [alt |-> << >>, src |-> NULL]>>,
     <<[alt |-> <<"c","h","a","r","t">>, src |-> <<"c","h","a","r","t",".","p","n","g">>], [alt |-> <<"i","c","o","n">>, src |-> <<"i","c","o","n",".","j","p","e","g">>],
       [alt |-> <<"a","n","i","m">>, src |-> <<"a","n","i","m",".","g","i","f">>]>>}
LongText == Repeat(<<"R","a","n","k"," ","r","a","n","k"," ","p","a","g","e","s"," ","b","y"," ","l","i","n","k","s"," ">>, 60)
Texts ==
    {NULL, << >>, BaseText,
     <<"S","E","O"," ","t","i","p","s",":"," ","s","i","t","e"," ","s","p","e","e","d",","," ","S","i","t","e"," ","l","i","n","k","s"," ","a","n","d"," ","s","i","t","e"," ","m","a","p","s",".","\n","S","p","e","e","d"," ","t","i","p","s"," ","f","o","r"," ","l","i","n","k","s">>}
ContentSoups ==
    {[BaseSoup EXCEPT !.headings = <<h1, h2, 0, 0, 0, 0>>, !.images = im] :
        h1 \in {0, 1, 2}, h2 \in {0, 2}, im \in ImageLists}

HeaderSets ==
    {[NoHeaders EXCEPT !["server"] = sv, !["content-encoding"] = ce, !["cache-control"] = cc,
                       !["expires"] = ex, !["content-type"] = ct] :
        sv \in {NULL, <<"n","g","i","n","x">>}, ce \in {NULL, <<"G","Z","i","p">>, <<"b","r">>}, cc \in {NULL, <<"m","a","x","-","a","g","e","=","3","6","0","0">>},
        ex \in {NULL, <<"0">>}, ct \in {NULL, <<"t","e","x","t","/","h","t","m","l">>}}
Elapsed == {50, 200, 201, 350}
ContentLengths == {NULL, <<"0">>, <<"2","0","4","8">>, <<"3","1","4","5","7","2","8">>, <<"3","1","4","5","7","2","9">>, <<"5","2","4","2","8","8","0">>}
StatusCodes == {200, 404, 500}

AnchorLists ==
    {<< >>,
     <<[href |-> <<"/","a","b","o","u","t">>, nofollow |-> FALSE],
       [href |-> <<"h","t","t","p","s",":","/","/","e","x","a","m","p","l","e",".","c","o","m","/","c","o","n","t","a","c","t">>, nofollow |-> FALSE],
       [href |-> <<"h","t","t","p","s",":","/","/","o","t","h","e","r",".","o","r","g">>, nofollow |-> TRUE],
       [href |-> <<"#","s","e","c","t","i","o","n">>, nofollow |-> FALSE]>>,
     <<[href |-> << >>, nofollow |-> FALSE], [href |-> NULL, nofollow |-> TRUE],
       [href |-> <<"m","a","i","l","t","o",":","m","e","@","e","x","a","m","p","l","e",".","c","o","m">>, nofollow |-> FALSE],
       [href |-> <<"/","/","c","d","n",".","e","x","a","m","p","l","e",".","n","e","t","/","l","i","b",".","j","s">>, nofollow |-> FALSE],
       [href |-> <<"p","a","g","e","2">>, nofollow |-> FALSE]>>}

Sites ==
    {[BaseSite EXCEPT !.soup = s] : s \in TitleSoups \cup MetaSoups}
    \cup {[BaseSite EXCEPT !.soup = s, !.text = x] : s \in ContentSoups, x \in Texts}
    \cup {[BaseSite EXCEPT !.text = LongText]}
    \cup {[BaseSite EXCEPT !.response.headers = h] : h \in HeaderSets}
    \cup {[BaseSite EXCEPT !.url = u, !.soup.viewport = v] : u \in Urls, v \in Viewports}
    \cup {[BaseSite EXCEPT !.response.elapsed = e, !.response.headers["content-length"] = n] :
            e \in Elapsed, n \in ContentLengths}
    \cup {[BaseSite EXCEPT !.url = u, !.soup.anchors = a] : u \in Urls, a \in AnchorLists}
    \cup {[BaseSite EXCEPT !.response.status_code = c] : c \in StatusCodes}

\* The answers of the domain registry, and the day the analysis runs on
Today == 20000
MaxDay == 20001
ADate(d) == [kind |-> "date", day |-> d]
DateList(ds) == [kind |-> "list", days |-> ds]
Unparsed == [kind |-> "str"]
DomainInfos ==
    {[raises |-> TRUE],
     [raises |-> FALSE, creation_date |-> NoDate, expiration_date |-> NoDate],
     [raises |-> FALSE, creation_date |-> ADate(19000), expiration_date |-> ADate(20100)],
     [raises |-> FALSE, creation_date |-> DateList(<<19500, 19600>>),
                        expiration_date |-> DateList(<<19990, 20300>>)],
     [raises |-> FALSE, creation_date |-> ADate(19000), expiration_date |-> Unparsed],
     [raises |-> FALSE, creation_date |-> Unparsed, expiration_date |-> ADate(20100)],
     [raises |-> FALSE, creation_date |-> DateList(<< >>), expiration_date |-> NoDate]}
Probes == {[raises |-> TRUE]} \cup {[raises |-> FALSE, status_code |-> c] : c \in {200, 404}}

(***************************************************************************)
(* SEOAnalyzer.analyze as a state machine: one action per statement that   *)
(* calls out, in the order of the code.                                    *)
(***************************************************************************)
VARIABLES
    site,               \* what the network serves for the URL
    now,                \* datetime.now(), a day number
    url,                \* self.url
    pc,                 \* the last statement of analyze that completed
    calls,              \* the calls analyze has made so far, in order
    response,           \* the response of the primary GET
    soup,               \* BeautifulSoup(response.text)
    text_content,       \* trafilatura.extract(...)
    meta_analysis, content_analysis, technical_analysis,
    speed_analysis, security_analysis, link_analysis,
    domain_info,        \* what whois.whois answered in analyze_security
    probe,              \* what the GET of check_mobile_friendly answered
    improvements,
    scores,
    result,             \* the dictionary analyze returns
    previous,           \* the result and registry answer of the previous run
    runs                \* the number of analyses started

vars == <<site, now, url, pc, calls, response, soup, text_content, meta_analysis,
          content_analysis, technical_analysis, speed_analysis, security_analysis,
          link_analysis, domain_info, probe, improvements, scores, result, previous, runs>>

findings == <<meta_analysis, content_analysis, technical_analysis, speed_analysis,
              security_analysis, link_analysis>>

\* the six finding lists as calculate_scores and generate_improvements get them
analyses ==
    [meta |-> meta_analysis, content |-> content_analysis, technical |-> technical_analysis,
     speed |-> speed_analysis, security |-> security_analysis, links |-> link_analysis]

NoResponse == [status_code |-> 0, headers |-> NoHeaders, elapsed |-> 0]
NoSoup == [BaseSoup EXCEPT !.title = NULL]
NoDomainInfo == [raises |-> FALSE, creation_date |-> NoDate, expiration_date |-> NoDate]
NoProbe == [raises |-> FALSE, status_code |-> 0]
NoScores == [c \in DOMAIN Deduction \cup {"overall"} |-> 0]
NoResult == [returned |-> FALSE]

\* The locals of analyze before it runs
Fresh ==
    /\ pc = "start"
    /\ calls = << >>
    /\ response = NoResponse
    /\ soup = NoSoup
    /\ text_content = NULL
    /\ meta_analysis = << >>
    /\ content_analysis = << >>
    /\ technical_analysis = << >>
    /\ speed_analysis = << >>
    /\ security_analysis = << >>
    /\ link_analysis = << >>
    /\ domain_info = NoDomainInfo
    /\ probe = NoProbe
    /\ improvements = << >>
    /\ scores = NoScores
    /\ result = NoResult

\* SEOAnalyzer(url), for a URL the caller has validated
Init ==
    /\ site \in Sites
    /\ url = site.url
    /\ now = Today
    /\ previous = NoResult
    /\ runs = 1
    /\ Fresh

Step(from, to, call) ==
    /\ pc = from
    /\ pc' = to
    /\ calls' = Append(calls, call)

\* the GET followed by response.raise_for_status(): a status of 400 or more
\* leaves analyze as an exception
GetRaisingForStatus ==
    /\ pc = "start"
    /\ pc' = IF site.response.status_code >= 400 THEN "raised" ELSE "fetched"
    /\ calls' = Append(calls, "get")
    /\ response' = site.response
    /\ soup' = site.soup
    /\ UNCHANGED <<site, now, url, text_content, meta_analysis, content_analysis,
                   technical_analysis, speed_analysis, security_analysis, link_analysis,
                   domain_info, probe, improvements, scores, result, previous, runs>>

\* requests.get(self.url, headers=self.headers) returns: any status is a response
Get ==
    /\ Step("start", "fetched", "get")
    /\ response' = site.response
    /\ soup' = site.soup
    /\ UNCHANGED <<site, now, url, text_content, meta_analysis, content_analysis,
                   technical_analysis, speed_analysis, security_analysis, link_analysis,
                   domain_info, probe, improvements, scores, result, previous, runs>>

\* requests.get raises (DNS, connect, timeout): analyze has no handler, the
\* exception leaves analyze
GetFails ==
    /\ Step("start", "raised", "get")
    /\ UNCHANGED <<site, now, url, response, soup, text_content, meta_analysis,
                   content_analysis, technical_analysis, speed_analysis, security_analysis,
                   link_analysis, domain_info, probe, improvements, scores, result, previous, runs>>

\* trafilatura.fetch_url and trafilatura.extract: None when either yields nothing
ExtractText ==
    /\ Step("fetched", "extracted", "extract_text")
    /\ text_content' = site.text
    /\ UNCHANGED <<site, now, url, response, soup, meta_analysis, content_analysis,
                   technical_analysis, speed_analysis, security_analysis, link_analysis,
                   domain_info, probe, improvements, scores, result, previous, runs>>

AnalyzeMetaTags ==
    /\ Step("extracted", "meta", "analyze_meta_tags")
    /\ meta_analysis' = analyze_meta_tags(soup)
    /\ UNCHANGED <<site, now, url, response, soup, text_content, content_analysis,
                   technical_analysis, speed_analysis, security_analysis, link_analysis,
                   domain_info, probe, improvements, scores, result, previous, runs>>

AnalyzeContent ==
    /\ Step("meta", "content", "analyze_content")
    /\ content_analysis' = analyze_content(soup, text_content)
    /\ UNCHANGED <<site, now, url, response, soup, text_content, meta_analysis,
                   technical_analysis, speed_analysis, security_analysis, link_analysis,
                   domain_info, probe, improvements, scores, result, previous, runs>>

AnalyzeTechnical ==
    /\ Step("content", "technical", "analyze_technical")
    /\ technical_analysis' = analyze_technical(response, soup, url)
    /\ UNCHANGED <<site, now, url, response, soup, text_content, meta_analysis,
                   content_analysis, speed_analysis, security_analysis, link_analysis,
                   domain_info, probe, improvements, scores, result, previous, runs>>

AnalyzeSpeed ==
    /\ Step("technical", "speed", "analyze_speed")
    /\ speed_analysis' = analyze_speed(response)
    /\ UNCHANGED <<site, now, url, response, soup, text_content, meta_analysis,
                   content_analysis, technical_analysis, security_analysis, link_analysis,
                   domain_info, probe, improvements, scores, result, previous, runs>>

\* analyze_security, with whatever the registry answers for the domain
AnalyzeSecurity ==
    /\ Step("speed", "security", "analyze_security")
    /\ \E info \in DomainInfos :
        /\ domain_info' = info
        /\ security_analysis' = analyze_security(url, info, now)
    /\ UNCHANGED <<site, now, url, response, soup, text_content, meta_analysis,
                   content_analysis, technical_analysis, speed_analysis, link_analysis,
                   probe, improvements, scores, result, previous, runs>>

AnalyzeLinks ==
    /\ Step("security", "links", "analyze_links")
    /\ link_analysis' = analyze_links(soup, url)
    /\ UNCHANGED <<site, now, url, response, soup, text_content, meta_analysis,
                   content_analysis, technical_analysis, speed_analysis, security_analysis,
                   domain_info, probe, improvements, scores, result, previous, runs>>

GenerateImprovements ==
    /\ Step("links", "improvements", "generate_improvements")
    /\ improvements' = generate_improvements(analyses)
    /\ UNCHANGED <<site, now, url, response, soup, text_content, meta_analysis,
                   content_analysis, technical_analysis, speed_analysis, security_analysis,
                   link_analysis, domain_info, probe, scores, result, previous, runs>>

CalculateScores ==
    /\ Step("improvements", "scores", "calculate_scores")
    /\ scores' = calculate_scores(analyses)
    /\ UNCHANGED <<site, now, url, response, soup, text_content, meta_analysis,
                   content_analysis, technical_analysis, speed_analysis, security_analysis,
                   link_analysis, domain_info, probe, improvements, result, previous, runs>>

\* The dictionary of the return statement (but for load_time, a wall-clock
\* reading), with check_mobile_friendly() evaluated while it is built
ResultRecord(mobile_friendly) ==
    [returned           |-> TRUE,
     overall_score      |-> scores["overall"],
     metrics            |-> [n \in {"Meta Tags", "Content", "Technical", "Speed", "Security", "Links"} |->
                               CASE n = "Meta Tags" -> scores["meta"]
                                 [] n = "Content"   -> scores["content"]
                                 [] n = "Technical" -> scores["technical"]
                                 [] n = "Speed"     -> scores["speed"]
                                 [] n = "Security"  -> scores["security"]
                                 [] n = "Links"     -> scores["links"]],
     mobile_friendly    |-> mobile_friendly,
     ssl_certified      |-> startswith(url, <<"h","t","t","p","s">>),
     meta_analysis      |-> meta_analysis,
     content_analysis   |-> content_analysis,
     technical_analysis |-> technical_analysis,
     speed_analysis     |-> speed_analysis,
     security_analysis  |-> security_analysis,
     link_analysis      |-> link_analysis,
     improvements       |-> improvements]

Return ==
    /\ Step("scores", "returned", "check_mobile_friendly")
    /\ \E answer \in Probes :
        /\ probe' = answer
        /\ result' = ResultRecord(check_mobile_friendly(answer))
    /\ UNCHANGED <<site, now, url, response, soup, text_content, meta_analysis,
                   content_analysis, technical_analysis, speed_analysis, security_analysis,
                   link_analysis, domain_info, improvements, scores, previous, runs>>

Next ==
    \/ Get
    \/ GetFails
    \/ ExtractText
    \/ AnalyzeMetaTags
    \/ AnalyzeContent
    \/ AnalyzeTechnical
    \/ AnalyzeSpeed
    \/ AnalyzeSecurity
    \/ AnalyzeLinks
    \/ GenerateImprovements
    \/ CalculateScores
    \/ Return

Spec == Init /\ [][Next]_vars

(***************************************************************************)
(* The engine run again on the same URL (src/main.py builds a new          *)
(* SEOAnalyzer and calls analyze for every request): the network serves    *)
(* the identical response, document and text; the registry answers anew    *)
(* and the date may have changed.                                          *)
(***************************************************************************)
MaxRuns == 2

\* The day changes between two analyses
Tick ==
    /\ pc = "returned"
    /\ runs < MaxRuns
    /\ now < MaxDay
    /\ now' = now + 1
    /\ UNCHANGED <<site, url, pc, calls, response, soup, text_content, meta_analysis,
                   content_analysis, technical_analysis, speed_analysis, security_analysis,
                   link_analysis, domain_info, probe, improvements, scores, result,
                   previous, runs>>

\* What a run leaves behind for the comparison with the next one
Outcome ==
    [returned |-> TRUE, findings |-> findings, scores |-> scores,
     improvements |-> improvements, domain_info |-> domain_info]

\* analyzer = SEOAnalyzer(url); results = analyzer.analyze(), once more
Reanalyze ==
    /\ pc = "returned"
    /\ runs < MaxRuns
    /\ runs' = runs + 1
    /\ previous' = Outcome
    /\ pc' = "start"
    /\ calls' = << >>
    /\ response' = NoResponse
    /\ soup' = NoSoup
    /\ text_content' = NULL
    /\ meta_analysis' = << >>
    /\ content_analysis' = << >>
    /\ technical_analysis' = << >>
    /\ speed_analysis' = << >>
    /\ security_analysis' = << >>
    /\ link_analysis' = << >>
    /\ domain_info' = NoDomainInfo
    /\ probe' = NoProbe
    /\ improvements' = << >>
    /\ scores' = NoScores
    /\ result' = NoResult
    /\ UNCHANGED <<site, now, url>>

RerunSites == {[BaseSite EXCEPT !.url = u] : u \in Urls}

RerunInit ==
    /\ site \in RerunSites
    /\ url = site.url
    /\ now = Today
    /\ previous = NoResult
    /\ runs = 1
    /\ Fresh

RerunNext ==
    \/ Next
    \/ Tick
    \/ Reanalyze

SpecRerun == RerunInit /\ [][RerunNext]_vars

(***************************************************************************)
(* calculate_scores and generate_improvements on arbitrary finding lists:  *)
(* the two calls of analyze, made with six lists that hold any number of   *)
(* findings, drawn from pools of findings that match a category's issue    *)
(* keywords (one keyword, several, other letter case) and of findings that *)
(* do not (among them findings that match another category's keywords).    *)
(***************************************************************************)
MaxIssues == 11

IssuePool ==
    [meta      |-> <<<<"M","i","s","s","i","n","g"," ","t","i","t","l","e"," ","t","a","g">>, <<"T","i","t","l","e"," ","t","a","g"," ","i","s"," ","t","o","o"," ","l","o","n","g"," ","(","7","0"," ","c","h","a","r","s",".",".",".",")">>,
                     <<"N","o"," ","r","o","b","o","t","s"," ","m","e","t","a"," ","t","a","g"," ","f","o","u","n","d">>, <<"M","I","S","S","I","N","G",":"," ","t","o","o"," ","m","a","n","y"," ","t","a","g","s",","," ","n","o"," ","t","i","t","l","e">>>>,
     content   |-> <<<<"M","i","s","s","i","n","g"," ","H","1"," ","h","e","a","d","i","n","g"," ","(","m","a","i","n"," ","t","i","t","l","e",")">>,
                     <<"C","o","n","t","e","n","t"," ","i","s"," ","t","o","o"," ","s","h","o","r","t"," ","(","1","3"," ","w","o","r","d","s",","," ","r","e","c","o","m","m","e","n","d","e","d",":"," ","m","i","n","i","m","u","m"," ","3","0","0",")">>,
                     <<"M","u","l","t","i","p","l","e"," ","H","1"," ","h","e","a","d","i","n","g","s"," ","d","e","t","e","c","t","e","d"," ","(","2"," ","f","o","u","n","d",","," ","r","e","c","o","m","m","e","n","d","e","d",":"," ","1",")">>,
                     <<"T","o","o"," ","S","h","o","r","t",","," ","a","n","d"," ","m","u","l","t","i","p","l","e"," ","t","i","m","e","s"," ","m","i","s","s","i","n","g">>>>,
     technical |-> <<<<"C","o","n","t","e","n","t"," ","c","o","m","p","r","e","s","s","i","o","n"," ","i","s"," ","n","o","t"," ","e","n","a","b","l","e","d">>, <<"S","l","o","w"," ","T","L","S"," ","h","a","n","d","s","h","a","k","e">>,
                     <<"V","i","e","w","p","o","r","t"," ","m","e","t","a"," ","t","a","g"," ","n","e","e","d","s"," ","o","p","t","i","m","i","z","a","t","i","o","n">>, <<"S","e","r","v","e","r",":"," ","N","o","t"," ","d","i","s","c","l","o","s","e","d">>>>,
     speed     |-> <<<<"S","l","o","w"," ","s","e","r","v","e","r"," ","r","e","s","p","o","n","s","e"," ","t","i","m","e",":"," ","2",".","0","1","s"," ","(","r","e","c","o","m","m","e","n","d","e","d",":"," ","<"," ","2","s",")">>,
                     <<"L","a","r","g","e"," ","p","a","g","e"," ","s","i","z","e",":"," ","5",".","0","0","M","B"," ","(","r","e","c","o","m","m","e","n","d","e","d",":"," ","<"," ","3","M","B",")">>, <<"S","L","O","W"," ","a","n","d"," ","l","a","r","g","e">>>>,
     security  |-> <<<<"W","e","b","s","i","t","e"," ","i","s"," ","n","o","t"," ","u","s","i","n","g"," ","H","T","T","P","S"," ","(","s","e","c","u","r","i","t","y"," ","r","i","s","k",")">>,
                     <<"C","o","u","l","d"," ","n","o","t"," ","f","e","t","c","h"," ","d","o","m","a","i","n"," ","r","e","g","i","s","t","r","a","t","i","o","n"," ","i","n","f","o","r","m","a","t","i","o","n">>, <<"R","i","s","k"," ","o","f"," ","e","x","p","i","r","y">>>>,
     links     |-> <<<<"B","r","o","k","e","n"," ","l","i","n","k",":"," ","/","o","l","d">>, <<"I","n","v","a","l","i","d"," ","U","R","L">>, <<"T","o","o"," ","m","a","n","y"," ","b","r","o","k","e","n"," ","o","r"," ","i","n","v","a","l","i","d"," ","l","i","n","k","s">>>>]

OtherPool ==
    [meta      |-> <<<<"V","i","e","w","p","o","r","t"," ","m","e","t","a"," ","t","a","g"," ","i","s"," ","p","r","o","p","e","r","l","y"," ","s","e","t"," ","f","o","r"," ","m","o","b","i","l","e"," ","d","e","v","i","c","e","s">>, <<"B","r","o","k","e","n"," ","m","a","r","k","u","p">>>>,
     content   |-> <<<<"T","o","t","a","l"," ","i","m","a","g","e","s",":"," ","0">>, <<"T","i","t","l","e"," ","t","a","g"," ","i","s"," ","t","o","o"," ","l","o","n","g"," ","(","7","0"," ","c","h","a","r","s",".",".",".",")">>>>,
     technical |-> <<<<"S","e","r","v","e","r",":"," ","n","g","i","n","x">>, <<"L","a","r","g","e"," ","p","a","g","e"," ","s","i","z","e",":"," ","5",".","0","0","M","B"," ","(","r","e","c","o","m","m","e","n","d","e","d",":"," ","<"," ","3","M","B",")">>>>,
     speed     |-> <<<<"G","o","o","d"," ","p","a","g","e"," ","s","i","z","e",":"," ","0",".","0","0","M","B">>, <<"M","i","s","s","i","n","g"," ","t","i","t","l","e"," ","t","a","g">>>>,
     security  |-> <<<<"W","e","b","s","i","t","e"," ","i","s"," ","s","e","c","u","r","e","d"," ","w","i","t","h"," ","H","T","T","P","S">>, <<"D","o","m","a","i","n"," ","a","g","e",":"," ","1","0","0","0"," ","d","a","y","s">>>>,
     links     |-> <<<<"T","o","t","a","l"," ","l","i","n","k","s"," ","f","o","u","n","d",":"," ","4">>, <<"L","i","n","k","s"," ","w","i","t","h"," ","n","o","f","o","l","l","o","w",":"," ","1">>>>]

\* A list of category c with n findings from its issue pool: one other finding,
\* the n issue findings, the remaining other findings; without the other
\* findings when `others` is false
FindingList(c, n, others) ==
    (IF others THEN <<OtherPool[c][1]>> ELSE << >>)
    \o [i \in 1..n |-> IssuePool[c][((i - 1) % Len(IssuePool[c])) + 1]]
    \o (IF others THEN Tail(OtherPool[c]) ELSE << >>)

\* Numbers of issue findings per category: every combination of none, two and
\* MaxIssues; and each category alone from 0 to MaxIssues, with and without
\* other findings
IssueCounts ==
    [DOMAIN Deduction -> {0, 2, MaxIssues}]
    \cup {[c \in DOMAIN Deduction |-> IF c = d THEN n ELSE 1] :
            d \in DOMAIN Deduction, n \in 0..MaxIssues}

ScoreInit ==
    /\ site = BaseSite
    /\ url = BaseUrl
    /\ now = Today
    /\ previous = NoResult
    /\ runs = 1
    /\ pc = "links"
    /\ calls = << >>
    /\ response = NoResponse
    /\ soup = NoSoup
    /\ text_content = NULL
    /\ domain_info = NoDomainInfo
    /\ probe = NoProbe
    /\ improvements = << >>
    /\ scores = NoScores
    /\ result = NoResult
    /\ \E n \in IssueCounts, others \in BOOLEAN :
        /\ (\E c \in DOMAIN Deduction : n[c] = 1) \/ others
        /\ meta_analysis = FindingList("meta", n["meta"], others)
        /\ content_analysis = FindingList("content", n["content"], others)
        /\ technical_analysis = FindingList("technical", n["technical"], others)
        /\ speed_analysis = FindingList("speed", n["speed"], others)
        /\ security_analysis = FindingList("security", n["security"], others)
        /\ link_analysis = FindingList("links", n["links"], others)

ScoreNext ==
    \/ GenerateImprovements
    \/ CalculateScores

SpecScore == ScoreInit /\ [][ScoreNext]_vars

(***************************************************************************)
(* Properties                                                              *)
(***************************************************************************)
Scored == pc \in {"scores", "returned"}
Improved == pc \in {"improvements", "scores", "returned"}

\* C1: whatever six finding lists calculate_scores is given (any number of
\* issue findings per category, none or more than enough to drive the raw
\* value below zero), each of the six sub-scores and the overall score is at
\* least 0 and at most 100.
C1_ScoresInRange ==
    Scored =>
        /\ \A c \in DOMAIN Deduction : 0 <= scores[c] /\ scores[c] <= 100
        /\ 0 <= scores["overall"] /\ scores["overall"] <= 100 * WeightScale

\* every raw value is below zero, and a run where none is
C1_Witness ==
    /\ Scored
    /\ \A c \in DOMAIN Deduction : RawScore(analyses[c], c) < 0 /\ scores[c] = 0
    /\ scores["overall"] = 0

\* C2: each sub-score is max(0, min(100, 100 - d * n)), n the number of findings
\* of that category's list whose lowercased text holds at least one of the
\* category's keywords (a finding holding several is counted once); the
\* keywords and d are those of the table below, and no other category's list
\* enters the sub-score.
C2Table ==
    [meta      |-> [keywords |-> {<<"m","i","s","s","i","n","g">>, <<"t","o","o">>, <<"n","o">>}, d |-> 15],
     content   |-> [keywords |-> {<<"m","i","s","s","i","n","g">>, <<"t","o","o"," ","s","h","o","r","t">>, <<"m","u","l","t","i","p","l","e">>}, d |-> 10],
     technical |-> [keywords |-> {<<"n","o","t">>, <<"s","l","o","w">>, <<"n","e","e","d","s">>}, d |-> 20],
     speed     |-> [keywords |-> {<<"s","l","o","w">>, <<"l","a","r","g","e">>}, d |-> 25],
     security  |-> [keywords |-> {<<"n","o","t">>, <<"r","i","s","k">>, <<"c","o","u","l","d"," ","n","o","t">>}, d |-> 30],
     links     |-> [keywords |-> {<<"b","r","o","k","e","n">>, <<"i","n","v","a","l","i","d">>}, d |-> 15]]

Holding(analysis, keywords) ==
    {i \in 1..Len(analysis) : \E k \in keywords : Contains(lower(analysis[i]), k)}

C2_SubScores ==
    Scored =>
        \A c \in DOMAIN C2Table :
            scores[c] = max(0, min(100, 100 - C2Table[c].d
                                              * Cardinality(Holding(analyses[c], C2Table[c].keywords))))

\* a sub-score strictly inside the range, from a list with a finding that holds
\* several keywords of its category and a finding that holds only a keyword of
\* another category
C2_Witness ==
    /\ Scored
    /\ scores["meta"] = 40
    /\ \E i \in 1..Len(meta_analysis) :
        Cardinality({k \in C2Table["meta"].keywords : Contains(lower(meta_analysis[i]), k)}) = 3
    /\ \E i \in 1..Len(meta_analysis) :
        /\ i \notin Holding(meta_analysis, C2Table["meta"].keywords)
        /\ \E k \in C2Table["links"].keywords : Contains(lower(meta_analysis[i]), k)

\* C3: the overall score is the clamp to [0, 100] of 0.20 meta + 0.25 content +
\* 0.15 technical + 0.15 speed + 0.15 security + 0.10 links over the clamped
\* sub-scores, the weights sum to 1, also when sub-scores are exactly 0 or 100.
\* (The overall score and the weights are in hundredths.)
C3_Overall ==
    Scored =>
        /\ scores["overall"] =
            max(0, min(10000, 20 * scores["meta"] + 25 * scores["content"]
                              + 15 * scores["technical"] + 15 * scores["speed"]
                              + 15 * scores["security"] + 10 * scores["links"]))
        /\ SumOver(weights, Categories) = 1 * WeightScale
        /\ DOMAIN weights = DOMAIN Deduction

\* sub-scores at 0, at 100 and in between, the overall score in between
C3_Witness ==
    /\ Scored
    /\ scores["links"] = 0
    /\ scores["meta"] = 100
    /\ scores["content"] = 80
    /\ scores["technical"] = 60
    /\ scores["speed"] = 50
    /\ scores["security"] = 40
    /\ scores["overall"] = 6250

\* C8: generate_improvements returns one suggestion for each finding whose
\* lowercased text holds one of missing, too, no, not, slow, large, multiple,
\* broken, and none for another finding; a suggestion is '[<Category>] ' and the
\* rewritten finding, <Category> the display name of the finding's list; the
\* suggestions come in the order Meta Tags, Content, Technical, Speed,
\* Security, Links and, within a category, in the order of the findings;
\* 'Missing title tag' yields '[Meta Tags] Add title tag'.
C8Keywords ==
    {<<"m","i","s","s","i","n","g">>, <<"t","o","o">>, <<"n","o">>, <<"n","o","t">>, <<"s","l","o","w">>, <<"l","a","r","g","e">>, <<"m","u","l","t","i","p","l","e">>, <<"b","r","o","k","e","n">>}
C8Names ==
    <<<<"M","e","t","a"," ","T","a","g","s">>, <<"C","o","n","t","e","n","t">>, <<"T","e","c","h","n","i","c","a","l">>, <<"S","p","e","e","d">>, <<"S","e","c","u","r","i","t","y">>, <<"L","i","n","k","s">>>>
C8Candidate(finding) == \E k \in C8Keywords : Contains(lower(finding), k)
C8Suggestions(i) ==
    LET candidates == SelectSeq(findings[i], C8Candidate)
    IN  [j \in 1..Len(candidates) |-> <<"[">> \o C8Names[i] \o <<"]"," ">> \o Rewrite(candidates[j])]

C8_Improvements ==
    Improved =>
        /\ improvements = C8Suggestions(1) \o C8Suggestions(2) \o C8Suggestions(3)
                          \o C8Suggestions(4) \o C8Suggestions(5) \o C8Suggestions(6)
        /\ (\E i \in 1..Len(meta_analysis) : meta_analysis[i] = <<"M","i","s","s","i","n","g"," ","t","i","t","l","e"," ","t","a","g">>)
            => \E j \in 1..Len(improvements) : improvements[j] = <<"[","M","e","t","a"," ","T","a","g","s","]"," ","A","d","d"," ","t","i","t","l","e"," ","t","a","g">>

\* suggestions of every category, fewer than findings, 'Missing title tag' among
\* the findings
C8_Witness ==
    /\ Improved
    /\ \E i \in 1..Len(meta_analysis) : meta_analysis[i] = <<"M","i","s","s","i","n","g"," ","t","i","t","l","e"," ","t","a","g">>
    /\ \A i \in 1..6 : Len(C8Suggestions(i)) > 0 /\ Len(C8Suggestions(i)) < Len(findings[i])
    /\ \E j \in 1..Len(improvements) : improvements[j] = <<"[","L","i","n","k","s","]"," ","B","r","o","k","e","n"," ","l","i","n","k",":"," ","/","o","l","d">>

\* C4: the calls of analyze come in the order primary GET, the six extractors,
\* then suggestion generation and scoring, then the assembly of the result (with
\* its mobile probe); when the GET raises, the exception leaves analyze, nothing
\* else is called and no result is returned; a response of any status, 2xx or
\* not, is no failure.
C4Stage ==
    [get |-> 1, extract_text |-> 2,
     analyze_meta_tags |-> 2, analyze_content |-> 2, analyze_technical |-> 2,
     analyze_speed |-> 2, analyze_security |-> 2, analyze_links |-> 2,
     generate_improvements |-> 3, calculate_scores |-> 3, check_mobile_friendly |-> 4]
C4Extractors ==
    {"analyze_meta_tags", "analyze_content", "analyze_technical", "analyze_speed",
     "analyze_security", "analyze_links"}
Called(call) == \E i \in 1..Len(calls) : calls[i] = call

C4_Sequencing ==
    /\ \A i, j \in 1..Len(calls) : i < j => C4Stage[calls[i]] <= C4Stage[calls[j]] /\ calls[i] # calls[j]
    /\ calls # << >> => calls[1] = "get"
    /\ (Called("generate_improvements") \/ Called("calculate_scores"))
        => \A e \in C4Extractors : Called(e)
    /\ result.returned
        => Called("generate_improvements") /\ Called("calculate_scores") /\ pc = "returned"
    /\ pc = "raised"
        => calls = <<"get">> /\ response = NoResponse /\ ~result.returned
           /\ \A i \in 1..6 : findings[i] = << >>
    /\ response # NoResponse => pc # "raised"

\* a full run on a response with status 404
C4_Witness ==
    /\ pc = "returned"
    /\ response.status_code = 404
    /\ Len(calls) = 11
    /\ result.returned

\* C5: once the GET has succeeded analyze returns a complete result whatever
\* the registry lookup and the mobile probe do: a lookup that raises leaves
\* analyze_security's list as its HTTPS finding followed by exactly one 'Could
\* not fetch domain registration information', a probe that raises gives
\* mobile_friendly = false, and neither makes analyze raise.
C5CouldNot == <<"C","o","u","l","d"," ","n","o","t"," ","f","e","t","c","h"," ","d","o","m","a","i","n"," ","r","e","g","i","s","t","r","a","t","i","o","n"," ","i","n","f","o","r","m","a","t","i","o","n">>
C5Https ==
    IF startswith(url, <<"h","t","t","p","s">>) THEN <<"W","e","b","s","i","t","e"," ","i","s"," ","s","e","c","u","r","e","d"," ","w","i","t","h"," ","H","T","T","P","S">>
    ELSE <<"W","e","b","s","i","t","e"," ","i","s"," ","n","o","t"," ","u","s","i","n","g"," ","H","T","T","P","S"," ","(","s","e","c","u","r","i","t","y"," ","r","i","s","k",")">>
C5Keys ==
    {"overall_score", "metrics", "mobile_friendly", "ssl_certified", "meta_analysis",
     "content_analysis", "technical_analysis", "speed_analysis", "security_analysis",
     "link_analysis", "improvements"}
SecurityDone == pc \in {"security", "links", "improvements", "scores", "returned"}

C5_Degrades ==
    /\ SecurityDone =>
        /\ security_analysis[1] = C5Https
        /\ domain_info.raises => security_analysis = <<C5Https, C5CouldNot>>
        /\ Cardinality({i \in 1..Len(security_analysis) : security_analysis[i] = C5CouldNot}) <= 1
    /\ pc = "returned" =>
        /\ C5Keys \subseteq DOMAIN result
        /\ result.security_analysis = security_analysis
        /\ probe.raises => result.mobile_friendly = FALSE
        /\ result.mobile_friendly <=> (~probe.raises /\ probe.status_code = 200)
    /\ pc = "raised" => domain_info = NoDomainInfo /\ probe = NoProbe

\* a result returned although both the lookup and the probe raised
C5_Witness ==
    /\ pc = "returned"
    /\ result.returned
    /\ domain_info.raises
    /\ probe.raises
    /\ result.mobile_friendly = FALSE

\* C6: with no extracted text (None or '') analyze_content returns the heading
\* findings (the H1 issue when there is one, the heading summary) and the image
\* findings and nothing about word count or keywords; the content sub-score is
\* 100 minus 10 for each of these findings that holds a content keyword; the
\* analysis does not fail.
C6Keywords == {<<"m","i","s","s","i","n","g">>, <<"t","o","o"," ","s","h","o","r","t">>, <<"m","u","l","t","i","p","l","e">>}
NoText == text_content = NULL \/ text_content = << >>
ContentDone ==
    pc \in {"content", "technical", "speed", "security", "links", "improvements", "scores",
            "returned"}

C6_NoText ==
    (ContentDone /\ NoText) =>
        /\ content_analysis = HeadingFindings(soup.headings) \o ImageFindings(soup.images)
        /\ \A i \in 1..Len(content_analysis) :
            /\ ~startswith(content_analysis[i], <<"C","o","n","t","e","n","t"," ","i","s"," ","t","o","o"," ","s","h","o","r","t">>)
            /\ ~startswith(content_analysis[i], <<"G","o","o","d"," ","c","o","n","t","e","n","t"," ","l","e","n","g","t","h">>)
            /\ ~startswith(content_analysis[i], <<"T","o","p"," ","5"," ","k","e","y","w","o","r","d","s">>)
            /\ ~startswith(content_analysis[i], <<"-"," ","'">>)
        /\ \E i \in 1..Len(content_analysis) : startswith(content_analysis[i], <<"H","e","a","d","i","n","g"," ","s","t","r","u","c","t","u","r","e",":"," ">>)
        /\ \E i \in 1..Len(content_analysis) : startswith(content_analysis[i], <<"T","o","t","a","l"," ","i","m","a","g","e","s",":"," ">>)
        /\ soup.headings[1] = 0 => content_analysis[1] = <<"M","i","s","s","i","n","g"," ","H","1"," ","h","e","a","d","i","n","g"," ","(","m","a","i","n"," ","t","i","t","l","e",")">>
        /\ soup.headings[1] > 1 => startswith(content_analysis[1], <<"M","u","l","t","i","p","l","e"," ","H","1"," ","h","e","a","d","i","n","g","s"," ","d","e","t","e","c","t","e","d"," ","(">>)
        /\ Scored => scores["content"] = 100 - 10 * Cardinality(Holding(content_analysis, C6Keywords))

\* a result returned for a page without text and without an H1
C6_Witness ==
    /\ pc = "returned"
    /\ text_content = NULL
    /\ soup.headings[1] = 0
    /\ Len(soup.images) > 0
    /\ scores["content"] = 90

\* the same for an extraction that yields the empty string
C6_WitnessEmpty == pc = "returned" /\ site.text = << >> /\ text_content = << >>

\* C7: two runs on the same URL with an identical response, document and
\* extracted text (and the same answer of the registry) give identical finding
\* lists, scores and improvements.
C7_SameRunSameResult ==
    (pc = "returned" /\ previous.returned /\ previous.domain_info = domain_info) =>
        /\ previous.findings = findings
        /\ previous.scores = scores
        /\ previous.improvements = improvements

\* C9: for the finding analyze_meta_tags emits for a title of 70 characters,
\* generate_improvements gives a '[Meta Tags] ' suggestion in which 'Too long'
\* has become 'Reduce length of'.
C9TooLong == <<"T","i","t","l","e"," ","t","a","g"," ","i","s"," ","t","o","o"," ","l","o","n","g"," ","(","7","0"," ","c","h","a","r","s",","," ","r","e","c","o","m","m","e","n","d","e","d",":"," ","5","0","-","6","0",")">>

C9_TooLongRewritten ==
    (Improved /\ Len(meta_analysis) > 0 /\ meta_analysis[1] = C9TooLong) =>
        \E i \in 1..Len(improvements) :
            /\ startswith(improvements[i], <<"[","M","e","t","a"," ","T","a","g","s","]"," ">>)
            /\ Contains(improvements[i], <<"R","e","d","u","c","e"," ","l","e","n","g","t","h"," ","o","f">>)

\* C10: every finding of a category's list that holds one of the category's
\* scoring keywords (and so lowers the sub-score) gets a suggestion.
C10_DeductionHasSuggestion ==
    Improved =>
        \A i \in 1..6 : \A j \in 1..Len(findings[i]) :
            MatchesAny(findings[i][j], ScoreKeywords[Categories[i]])
                => \E k \in 1..Len(improvements) :
                    improvements[k] = Suggestion(Categories[i], findings[i][j])


SpeedDone == pc \in {"speed", "security", "links", "improvements", "scores", "returned"}
C11Header == response.headers["content-length"]
C11TimeFirst ==
    \/ startswith(speed_analysis[1], <<"S","l","o","w"," ","s","e","r","v","e","r"," ","r","e","s","p","o","n","s","e"," ","t","i","m","e",":"," ">>)
    \/ startswith(speed_analysis[1], <<"G","o","o","d"," ","s","e","r","v","e","r"," ","r","e","s","p","o","n","s","e"," ","t","i","m","e",":"," ">>)

LinksDone == pc \in {"links", "improvements", "scores", "returned"}
\* the host of the page, and the host a link resolves to against the page
C12PageHost ==
    IF url = <<"h","t","t","p","s",":","/","/","s","h","o","p",".","e","x","a","m","p","l","e",".","c","o","m","/">> THEN <<"s","h","o","p",".","e","x","a","m","p","l","e",".","c","o","m">> ELSE <<"e","x","a","m","p","l","e",".","c","o","m">>
C12Host(href) ==
    IF startswith(href, <<"h","t","t","p","s",":","/","/","e","x","a","m","p","l","e",".","c","o","m">>) THEN <<"e","x","a","m","p","l","e",".","c","o","m">>
    ELSE IF startswith(href, <<"h","t","t","p","s",":","/","/","o","t","h","e","r",".","o","r","g">>) THEN <<"o","t","h","e","r",".","o","r","g">>
    ELSE IF startswith(href, <<"/","/","c","d","n",".","e","x","a","m","p","l","e",".","n","e","t">>) THEN <<"c","d","n",".","e","x","a","m","p","l","e",".","n","e","t">>
    ELSE IF startswith(href, <<"m","a","i","l","t","o",":">>) THEN << >>
    ELSE C12PageHost
C12Total == {i \in 1..Len(soup.anchors) : soup.anchors[i].href # NULL}
C12Skipped ==
    {i \in C12Total : soup.anchors[i].href = << >> \/ soup.anchors[i].href[1] = "#"}
C12Internal ==
    {i \in C12Total \ C12Skipped :
        C12Host(soup.anchors[i].href) = C12PageHost \/ C12Host(soup.anchors[i].href) = << >>}
C12External == {i \in C12Total \ C12Skipped : i \notin C12Internal}
C12Example ==
    <<[href |-> <<"/","a","b","o","u","t">>, nofollow |-> FALSE],
      [href |-> <<"h","t","t","p","s",":","/","/","e","x","a","m","p","l","e",".","c","o","m","/","c","o","n","t","a","c","t">>, nofollow |-> FALSE],
      [href |-> <<"h","t","t","p","s",":","/","/","o","t","h","e","r",".","o","r","g">>, nofollow |-> TRUE],
      [href |-> <<"#","s","e","c","t","i","o","n">>, nofollow |-> FALSE]>>

\* C12: analyze_links reports as total the anchors that carry an href (empty
\* and fragment-only ones included), and counts every anchor with a non-empty,
\* not fragment-only href once, as internal (it resolves to the page's host or
\* to no host) or as external (any other host), so internal + external = total
\* - skipped; on https://example.com/blog '/about' and
\* 'https://example.com/contact' are internal, 'https://other.org' is external
\* and '#section' is in the total only.
C12_LinkCounts ==
    LinksDone =>
        /\ Len(link_analysis) >= 3
        /\ link_analysis[1] = <<"T","o","t","a","l"," ","l","i","n","k","s"," ","f","o","u","n","d",":"," ">> \o str(Cardinality(C12Total))
        /\ link_analysis[2] = <<"I","n","t","e","r","n","a","l"," ","l","i","n","k","s",":"," ">> \o str(Cardinality(C12Internal))
        /\ link_analysis[3] = <<"E","x","t","e","r","n","a","l"," ","l","i","n","k","s",":"," ">> \o str(Cardinality(C12External))
        /\ Cardinality(C12Internal) + Cardinality(C12External)
            = Cardinality(C12Total) - Cardinality(C12Skipped)
        /\ (url = <<"h","t","t","p","s",":","/","/","e","x","a","m","p","l","e",".","c","o","m","/","b","l","o","g">> /\ soup.anchors = C12Example) =>
            SubSeq(link_analysis, 1, 3)
                = <<<<"T","o","t","a","l"," ","l","i","n","k","s"," ","f","o","u","n","d",":"," ","4">>, <<"I","n","t","e","r","n","a","l"," ","l","i","n","k","s",":"," ","2">>, <<"E","x","t","e","r","n","a","l"," ","l","i","n","k","s",":"," ","1">>>>

\* the page of the example has been analysed
C12_Witness ==
    /\ pc = "returned"
    /\ url = <<"h","t","t","p","s",":","/","/","e","x","a","m","p","l","e",".","c","o","m","/","b","l","o","g">>
    /\ soup.anchors = C12Example
    /\ result.link_analysis[1] = <<"T","o","t","a","l"," ","l","i","n","k","s"," ","f","o","u","n","d",":"," ","4">>
    /\ result.link_analysis[2] = <<"I","n","t","e","r","n","a","l"," ","l","i","n","k","s",":"," ","2">>
    /\ result.link_analysis[3] = <<"E","x","t","e","r","n","a","l"," ","l","i","n","k","s",":"," ","1">>

\* anchors without href, with an empty href, with a scheme-only and a
\* scheme-relative href, on a page of another host
C12_WitnessSkipped ==
    /\ pc = "returned"
    /\ url = <<"h","t","t","p","s",":","/","/","s","h","o","p",".","e","x","a","m","p","l","e",".","c","o","m","/">>
    /\ Cardinality(C12Total) = 4
    /\ Cardinality(C12Skipped) = 1
    /\ Cardinality(C12Internal) = 2
    /\ Cardinality(C12External) = 1


MetaDone == pc \notin {"start", "fetched", "raised", "extracted"}
C13Short == <<"T","i","t","l","e"," ","t","a","g"," ","i","s"," ","t","o","o"," ","s","h","o","r","t"," ","(">>
C13Long == <<"T","i","t","l","e"," ","t","a","g"," ","i","s"," ","t","o","o"," ","l","o","n","g"," ","(">>
C13Optimal == <<"T","i","t","l","e"," ","t","a","g"," ","l","e","n","g","t","h"," ","i","s"," ","o","p","t","i","m","a","l"," ","(">>
C13Missing == <<"M","i","s","s","i","n","g"," ","t","i","t","l","e"," ","t","a","g">>
C13IsTitleFinding(f) ==
    startswith(f, C13Short) \/ startswith(f, C13Long) \/ startswith(f, C13Optimal) \/ f = C13Missing
C13Length == Len(soup.title)

\* C13: for a non-empty title of length L the first finding of
\* analyze_meta_tags is the only title finding, 'too short' iff L < 30, 'too
\* long' iff L > 60, 'optimal' iff 30 <= L <= 60 (29 too short, 30 and 60
\* optimal, 61 too long); without a title it is 'Missing title tag'.
C13_TitleBoundaries ==
    MetaDone =>
        /\ Cardinality({i \in 1..Len(meta_analysis) : C13IsTitleFinding(meta_analysis[i])}) = 1
        /\ C13IsTitleFinding(meta_analysis[1])
        /\ soup.title = NULL => meta_analysis[1] = C13Missing
        /\ (soup.title # NULL /\ soup.title # << >>) =>
            /\ startswith(meta_analysis[1], C13Short) <=> C13Length < 30
            /\ startswith(meta_analysis[1], C13Long) <=> C13Length > 60
            /\ startswith(meta_analysis[1], C13Optimal) <=> (30 <= C13Length /\ C13Length <= 60)
            /\ C13Length = 29 => startswith(meta_analysis[1], C13Short \o <<"2","9"," ","c","h","a","r","s">>)
            /\ C13Length = 30 => startswith(meta_analysis[1], C13Optimal \o <<"3","0"," ","c","h","a","r","s">>)
            /\ C13Length = 60 => startswith(meta_analysis[1], C13Optimal \o <<"6","0"," ","c","h","a","r","s">>)
            /\ C13Length = 61 => startswith(meta_analysis[1], C13Long \o <<"6","1"," ","c","h","a","r","s">>)

\* a title of exactly 30 characters has been found optimal
C13_Witness ==
    /\ pc = "returned"
    /\ soup.title # NULL
    /\ C13Length = 30
    /\ startswith(result.meta_analysis[1], C13Optimal)

\* the other boundary cases and the missing title
C13_WitnessShort == MetaDone /\ soup.title # NULL /\ C13Length = 29 /\ startswith(meta_analysis[1], C13Short)
C13_WitnessLong == MetaDone /\ soup.title # NULL /\ C13Length = 61 /\ startswith(meta_analysis[1], C13Long)
C13_WitnessMissing == MetaDone /\ soup.title = NULL /\ meta_analysis[1] = C13Missing


HasText == text_content # NULL /\ text_content # << >>
C14Header == <<"T","o","p"," ","5"," ","k","e","y","w","o","r","d","s"," ","a","n","d"," ","t","h","e","i","r"," ","d","e","n","s","i","t","y",":">>
\* the position of the keyword header in the content findings, and the findings after it
C14At == CHOOSE i \in 1..Len(content_analysis) : content_analysis[i] = C14Header
C14Emitted == SubSeq(content_analysis, C14At + 1, Len(content_analysis))
\* tokens are the whitespace-separated tokens, lowered the same lowercased:
\* the candidates, the occurrences of one and its first position
C14Lowered(tokens) == [j \in 1..Len(tokens) |-> lower(tokens[j])]
C14Candidates(tokens, lowered) == {lowered[j] : j \in {k \in 1..Len(tokens) : Len(tokens[k]) > 3}}
C14Count(lowered, w) == Cardinality({j \in 1..Len(lowered) : lowered[j] = w})
C14First(lowered, w) == CHOOSE j \in 1..Len(lowered) :
                            lowered[j] = w /\ \A k \in 1..(j - 1) : lowered[k] # w
C14Line(lowered, w) ==
    <<"-"," ","'">> \o w \o <<"'",":"," ">> \o Fixed(100 * C14Count(lowered, w), Len(lowered), 1)
    \o <<"%"," ","(">> \o str(C14Count(lowered, w)) \o <<" ","o","c","c","u","r","r","e","n","c","e","s",")">>
C14Words(emitted, lowered, candidates) ==
    [i \in 1..Len(emitted) |-> CHOOSE w \in candidates : emitted[i] = C14Line(lowered, w)]
C14Ranked(words, lowered, candidates) ==
    /\ \A i, j \in 1..Len(words) :
        i < j =>
            /\ words[i] # words[j]
            /\ C14Count(lowered, words[i]) >= C14Count(lowered, words[j])
            /\ C14Count(lowered, words[i]) = C14Count(lowered, words[j])
                => C14First(lowered, words[i]) < C14First(lowered, words[j])
    /\ \A w \in candidates :
        (\A i \in 1..Len(words) : words[i] # w)
            => \A i \in 1..Len(words) : C14Count(lowered, w) <= C14Count(lowered, words[i])
C14Holds(emitted, lowered, candidates) ==
    /\ Len(emitted) <= 5
    /\ Len(emitted) = min(5, Cardinality(candidates))
    /\ \A i \in 1..Len(emitted) : \E w \in candidates : emitted[i] = C14Line(lowered, w)
    /\ C14Ranked(C14Words(emitted, lowered, candidates), lowered, candidates)
C14OfTokens(emitted, tokens, lowered) == C14Holds(emitted, lowered, C14Candidates(tokens, lowered))
C14OfText(emitted, tokens) == C14OfTokens(emitted, tokens, C14Lowered(tokens))

\* C14: with text present analyze_content emits at most 5 keyword findings,
\* each for a lowercased token longer than 3 characters, in descending order of
\* occurrences with ties in order of first occurrence; no token left out occurs
\* more often than an emitted one; each density is 100 * count over the number
\* of all whitespace-separated tokens, short ones included.
C14_TopKeywords ==
    (ContentDone /\ HasText) =>
        /\ \E i \in 1..Len(content_analysis) : content_analysis[i] = C14Header
        /\ C14OfText(C14Emitted, SplitWhitespace(text_content))

\* a text of 13 tokens with 7 distinct long ones, four of them occurring once:
\* five are emitted, 'site' (3 of 13) first
C14_Witness ==
    /\ pc = "returned"
    /\ HasText
    /\ Len(SplitWhitespace(text_content)) = 13
    /\ Len(C14Emitted) = 5
    /\ C14Emitted[1] = <<"-"," ","'","s","i","t","e","'",":"," ","2","3",".","1","%"," ","(","3"," ","o","c","c","u","r","r","e","n","c","e","s",")">>
    /\ C14Emitted[2] = <<"-"," ","'","l","i","n","k","s","'",":"," ","1","5",".","4","%"," ","(","2"," ","o","c","c","u","r","r","e","n","c","e","s",")">>
    /\ C14Emitted[3] = <<"-"," ","'","t","i","p","s",":","'",":"," ","7",".","7","%"," ","(","1"," ","o","c","c","u","r","r","e","n","c","e","s",")">>


C15DeepUrl == <<"h","t","t","p",":","/","/","e","x","a","m","p","l","e",".","c","o","m","/","a","/","b","/","c","/","d","?","x","=","1">>
C15ShallowUrl == <<"h","t","t","p",":","/","/","e","x","a","m","p","l","e",".","c","o","m","/","a","/","b","/","c">>
C15Deep == <<"U","R","L"," ","s","t","r","u","c","t","u","r","e"," ","i","s"," ","d","e","e","p"," ","(","4"," ","l","e","v","e","l","s",","," ","r","e","c","o","m","m","e","n","d","e","d",":"," ","m","a","x","i","m","u","m"," ","3",")">>

\* C15: when the URL path has more than 3 non-empty segments analyze_technical
\* emits the deep-URL finding, the scorer counts it as a technical issue, and
\* the technical sub-score before the clamp is 20 lower than for the same
\* response and document at a URL of depth <= 3.
C15_DeepUrlCounted ==
    (Scored /\ url = C15DeepUrl) =>
        /\ \E i \in 1..Len(technical_analysis) : technical_analysis[i] = C15Deep
        /\ MatchesAny(C15Deep, ScoreKeywords["technical"])
        /\ RawScore(technical_analysis, "technical")
            = RawScore(analyze_technical(response, soup, C15ShallowUrl), "technical") - 20

\* C16: analyze_meta_tags always emits six findings, the fourth is the
\* canonical finding and holds the meta keyword 'no' in both of its forms, so
\* the meta sub-score of every analysis is at most 85, also for a page that
\* passes all six meta checks.
C16_MetaAtMost85 ==
    /\ MetaDone =>
        /\ Len(meta_analysis) = 6
        /\ \/ meta_analysis[4] = <<"N","o"," ","c","a","n","o","n","i","c","a","l"," ","U","R","L"," ","s","p","e","c","i","f","i","e","d">>
           \/ startswith(meta_analysis[4], <<"C","a","n","o","n","i","c","a","l"," ","U","R","L"," ","i","s"," ","s","e","t"," ","t","o",":"," ">>)
        /\ Contains(lower(meta_analysis[4]), <<"n","o">>)
    /\ Scored => scores["meta"] <= 85
    /\ pc = "returned" => result.metrics["Meta Tags"] <= 85

\* a page that passes all six meta checks has been scored 85
C16_Witness ==
    /\ pc = "returned"
    /\ Len(soup.title) = 30
    /\ Len(soup.description) = 120
    /\ soup.robots = <<"i","n","d","e","x",","," ","f","o","l","l","o","w">>
    /\ soup.canonical = <<"h","t","t","p","s",":","/","/","e","x","a","m","p","l","e",".","c","o","m","/","b","l","o","g">>
    /\ soup.viewport # NULL
    /\ soup.og_tags = 2
    /\ result.metrics["Meta Tags"] = 85

C17Prefixes ==
    {<<"T","o","t","a","l"," ","l","i","n","k","s"," ","f","o","u","n","d",":"," ">>, <<"I","n","t","e","r","n","a","l"," ","l","i","n","k","s",":"," ">>, <<"E","x","t","e","r","n","a","l"," ","l","i","n","k","s",":"," ">>, <<"L","i","n","k","s"," ","w","i","t","h"," ","n","o","f","o","l","l","o","w",":"," ">>}

\* C17: every finding of analyze_links is one of 'Total links found',
\* 'Internal links', 'External links' and 'Links with nofollow', none holds
\* 'broken' or 'invalid', and the links sub-score of every result is exactly
\* 100, whatever the anchors of the page.
C17_LinksAlways100 ==
    /\ LinksDone =>
        \A i \in 1..Len(link_analysis) :
            /\ \E p \in C17Prefixes : startswith(link_analysis[i], p)
            /\ ~Contains(lower(link_analysis[i]), <<"b","r","o","k","e","n">>)
            /\ ~Contains(lower(link_analysis[i]), <<"i","n","v","a","l","i","d">>)
    /\ Scored => scores["links"] = 100
    /\ pc = "returned" => result.metrics["Links"] = 100

\* a page with external and nofollow links has been scored 100 for links
C17_Witness ==
    /\ pc = "returned"
    /\ Len(soup.anchors) = 4
    /\ Len(result.link_analysis) = 4
    /\ startswith(result.link_analysis[4], <<"L","i","n","k","s"," ","w","i","t","h"," ","n","o","f","o","l","l","o","w",":"," ">>)
    /\ result.metrics["Links"] = 100

====
